---- MODULE Spec2Model ----
(***************************************************************************)
(* A model of the magnum-ecs example: an entt registry holding entities    *)
(* assembled from components, the systems that iterate views of it, and    *)
(* the ECSExample application that maps pointer and redraw events to       *)
(* system invocations.                                                     *)
(*                                                                         *)
(* float values are fixed-point integers: a dimensionless float f is the   *)
(* integer f * FScale, an angle in degrees d is the integer d * DegScale.  *)
(***************************************************************************)
EXTENDS Integers, Sequences, FiniteSets, TLC

VARIABLES
    registry,               \* ECSExample::_registry
    previousMousePosition,  \* ECSExample::_previousMousePosition
    projection,             \* ECSExample::_projection
    viewport,               \* GL::defaultFramebuffer.viewport().size()
    redrawFlag,             \* the application's pending-redraw flag
    calls,                  \* the statements the last handler executed, in order
    nMoves,                 \* number of drags applied so far (bounded)
    nReleases,              \* number of primary releases so far (bounded)
    viewed,                 \* the last view query on the registry and its result
    steps,                  \* number of structural registry operations so far
    event,                  \* the event the last handler was called with
    pressRecorded,          \* history: a primary press arrived since start or the last primary release
    aborted,                \* a fail-fast assertion has stopped the program
    initial,                \* history: the registry the run started from
    running,                \* the system passes in progress, innermost first
    loader,                 \* an AbstractResourceLoader: its counters and its manager's states
    debug,                  \* the outputs in force and the Debug, Warning, Error instances alive
    image,                  \* the Image and CompressedImage instances alive, the array last released
    registration            \* resource loaders and managers and their references to each other

vars == <<registry, previousMousePosition, projection, viewport, redrawFlag,
          calls, nMoves, nReleases, viewed, steps, event, pressRecorded, aborted,
          initial, running,
                   loader, debug, image, registration>>

---------------------------------------------------------------------------
\* Bounds of the model

MaxMoves == 2

MaxReleases == 1

MaxEntities == 4

MaxSteps == 3

MaxCycles == 36

---------------------------------------------------------------------------
\* Fixed-point arithmetic standing for float

FScale == 10000

DegScale == 100

Abs(a) == IF a < 0 THEN -a ELSE a

Sgn(a) == IF a < 0 THEN -1 ELSE 1

\* a / b rounded to nearest
RDiv(a, b) == Sgn(a) * Sgn(b) * ((2 * Abs(a) + Abs(b)) \div (2 * Abs(b)))

\* product of two floats
FMul(a, b) == RDiv(a * b, FScale)

RECURSIVE Series(_, _, _, _)
Series(x2, term, k, n) ==
    IF n = 0 THEN 0
    ELSE term + Series(x2, -RDiv(FMul(term, x2), k * (k + 1)), k + 2, n - 1)

\* std::sin, std::cos of an angle in radians
Sin(x) == Series(FMul(x, x), x, 2, 6)

Cos(x) == Series(FMul(x, x), FScale, 1, 6)

RECURSIVE Newton(_, _)
Newton(n, g) ==
    LET h == (g + n \div g) \div 2 IN IF h >= g THEN g ELSE Newton(n, h)

\* std::sqrt of the float n / FScale^2, as a float
Sqrt(n) == IF n = 0 THEN 0 ELSE Newton(n, n)

Range(s) == {s[i] : i \in DOMAIN s}

---------------------------------------------------------------------------
\* Math::Quaternion<float>, as <<x, y, z, w>> (vector part, scalar part)

Dot4(p, q) == p[1] * q[1] + p[2] * q[2] + p[3] * q[3] + p[4] * q[4]

\* Quaternion::operator*
QMul(p, q) ==
    << RDiv(p[4] * q[1] + q[4] * p[1] + p[2] * q[3] - p[3] * q[2], FScale),
       RDiv(p[4] * q[2] + q[4] * p[2] + p[3] * q[1] - p[1] * q[3], FScale),
       RDiv(p[4] * q[3] + q[4] * p[3] + p[1] * q[2] - p[2] * q[1], FScale),
       RDiv(p[4] * q[4] - p[1] * q[1] - p[2] * q[2] - p[3] * q[3], FScale) >>

\* Quaternion::length
QLength(q) == Sqrt(Dot4(q, q))

\* Quaternion::normalized
Normalized(q) ==
    LET len == QLength(q) IN [i \in 1..4 |-> RDiv(q[i] * FScale, len)]

\* Quaternion::rotation(angle, normalizedAxis)
Rotation(angle, axis) ==
    LET half == RDiv(angle, 2) IN
    << FMul(axis[1], Sin(half)), FMul(axis[2], Sin(half)),
       FMul(axis[3], Sin(half)), Cos(half) >>

xAxis == <<FScale, 0, 0>>

yAxis == <<0, FScale, 0>>

\* 30.0_degf as radians
InitialAngle == RDiv(30 * 31416, 180)

\* a float vector, or the NaN vector a division of zero by zero leaves
Vec(v) == [nan |-> FALSE, v |-> v]

NaNVector == [nan |-> TRUE, v |-> <<0, 0, 0>>]

\* Quaternion::angle, 2 * acos(w), kept as its cosine and sine
Angle(q) ==
    LET half == Sqrt(FScale * FScale - q[4] * q[4])
    IN  [cos |-> RDiv(2 * q[4] * q[4], FScale) - FScale,
         sin |-> RDiv(2 * q[4] * half, FScale)]

\* Quaternion::axis, vector / sqrt(1 - w^2): NaN when 1 - w^2 is not positive
Axis(q) ==
    LET half == Sqrt(FScale * FScale - q[4] * q[4])
    IN  IF q[4] * q[4] >= FScale * FScale \/ half = 0 THEN NaNVector
        ELSE Vec([i \in 1..3 |-> RDiv(q[i] * FScale, half)])

\* Vector3::normalized, vector / length
NormalizedVector(a) ==
    LET len == Sqrt(a.v[1] * a.v[1] + a.v[2] * a.v[2] + a.v[3] * a.v[3])
    IN  IF a.nan \/ len = 0 THEN NaNVector
        ELSE Vec([i \in 1..3 |-> RDiv(a.v[i] * FScale, len)])

---------------------------------------------------------------------------
\* Math::Matrix4<float>, as its four rows; applied to column vectors

Matrix(m) == [nan |-> FALSE, m |-> m]

NaNMatrix ==
    [nan |-> TRUE, m |-> <<<<0, 0, 0, 0>>, <<0, 0, 0, 0>>, <<0, 0, 0, 0>>, <<0, 0, 0, 0>>>>]

\* Matrix4::scaling
Scaling(s) ==
    Matrix(<< <<s[1], 0, 0, 0>>, <<0, s[2], 0, 0>>, <<0, 0, s[3], 0>>,
              <<0, 0, 0, FScale>> >>)

\* Matrix4::translation
Translation(p) ==
    Matrix(<< <<FScale, 0, 0, p[1]>>, <<0, FScale, 0, p[2]>>, <<0, 0, FScale, p[3]>>,
              <<0, 0, 0, FScale>> >>)

\* Matrix4::rotation(angle, normalizedAxis)
RotationMatrix(angle, axis) ==
    LET x == axis.v[1]
        y == axis.v[2]
        z == axis.v[3]
        omc == FScale - angle.cos
        P(a, b) == FMul(FMul(a, b), omc)
        S(a) == FMul(a, angle.sin)
    IN  IF axis.nan THEN NaNMatrix
        ELSE Matrix(<< <<angle.cos + P(x, x), P(x, y) - S(z), P(x, z) + S(y), 0>>,
                       <<P(x, y) + S(z), angle.cos + P(y, y), P(y, z) - S(x), 0>>,
                       <<P(x, z) - S(y), P(y, z) + S(x), angle.cos + P(z, z), 0>>,
                       <<0, 0, 0, FScale>> >>)

\* Matrix4::operator*
MatMul(a, b) ==
    IF a.nan \/ b.nan THEN NaNMatrix
    ELSE Matrix([i \in 1..4 |-> [j \in 1..4 |->
            RDiv(a.m[i][1] * b.m[1][j] + a.m[i][2] * b.m[2][j]
                 + a.m[i][3] * b.m[3][j] + a.m[i][4] * b.m[4][j], FScale)]])

\* Matrix4::transformPoint
TransformPoint(a, p) ==
    IF a.nan THEN NaNVector
    ELSE Vec([i \in 1..3 |->
            RDiv(a.m[i][1] * p[1] + a.m[i][2] * p[2] + a.m[i][3] * p[3]
                 + a.m[i][4] * FScale, FScale)])

\* Matrix4::rotationScaling, the upper-left 3x3 part
RotationScaling(a) ==
    [nan |-> a.nan, m |-> [i \in 1..3 |-> [j \in 1..3 |-> a.m[i][j]]]]

---------------------------------------------------------------------------
\* Color3 / Color4, channels as floats <<r, g, b, a>>; hue in degrees

Max3(c) == IF c[1] >= c[2] /\ c[1] >= c[3] THEN c[1]
           ELSE IF c[2] >= c[3] THEN c[2] ELSE c[3]

Min3(c) == IF c[1] <= c[2] /\ c[1] <= c[3] THEN c[1]
           ELSE IF c[2] <= c[3] THEN c[2] ELSE c[3]

\* Color4::hue
Hue(c) ==
    LET max == Max3(c)
        delta == max - Min3(c)
    IN  IF delta = 0 THEN 0
        ELSE IF max = c[1]
             THEN RDiv((c[2] - c[3]) * 60 * DegScale, delta)
                  + (IF c[2] < c[3] THEN 360 * DegScale ELSE 0)
        ELSE IF max = c[2]
             THEN RDiv((c[3] - c[1]) * 60 * DegScale, delta) + 120 * DegScale
        ELSE RDiv((c[1] - c[2]) * 60 * DegScale, delta) + 240 * DegScale

\* Color4::saturation
Saturation(c) == IF Max3(c) = 0 THEN 0 ELSE RDiv((Max3(c) - Min3(c)) * FScale, Max3(c))

\* Color4::value
Value(c) == Max3(c)

\* Color3::fromHsv; the result converted to Color4 has alpha 1
FromHsv(hue, saturation, value) ==
    LET wrapped == hue % (360 * DegScale)
        h == (wrapped \div (60 * DegScale)) % 6
        f == RDiv((wrapped % (60 * DegScale)) * FScale, 60 * DegScale)
        p == FMul(value, FScale - saturation)
        q == FMul(value, FScale - FMul(f, saturation))
        t == FMul(value, FScale - FMul(FScale - f, saturation))
    IN  CASE h = 0 -> <<value, t, p, FScale>>
          [] h = 1 -> <<q, value, p, FScale>>
          [] h = 2 -> <<p, value, t, FScale>>
          [] h = 3 -> <<p, q, value, FScale>>
          [] h = 4 -> <<t, p, value, FScale>>
          [] h = 5 -> <<value, p, q, FScale>>

---------------------------------------------------------------------------
\* entt::registry: one table per component type, keyed by entity

ComponentTypes == {"Identity", "Position", "Orientation", "Scale", "Drawable"}

EntityIds == 0 .. (MaxEntities - 1)

EmptyTable == [e \in {} |-> 0]

EmptyRegistry ==
    [alive |-> {}, identity |-> EmptyTable, position |-> EmptyTable,
     orientation |-> EmptyTable, scale |-> EmptyTable, drawable |-> EmptyTable]

\* the entities of the pool of component type c
Pool(reg, c) ==
    CASE c = "Identity" -> DOMAIN reg.identity
      [] c = "Position" -> DOMAIN reg.position
      [] c = "Orientation" -> DOMAIN reg.orientation
      [] c = "Scale" -> DOMAIN reg.scale
      [] c = "Drawable" -> DOMAIN reg.drawable

\* registry.has<C>(e)
Has(reg, c, e) == e \in Pool(reg, c)

RECURSIVE Descending(_)
Descending(S) ==
    IF S = {} THEN <<>>
    ELSE LET m == CHOOSE x \in S : \A y \in S : y <= x
         IN  <<m>> \o Descending(S \ {m})

\* registry.view<types...>(): walks the smallest of the pools and keeps the
\* entities every other pool holds as well
View(reg, types) ==
    LET lead == CHOOSE c \in types :
                    \A d \in types : Cardinality(Pool(reg, c)) <= Cardinality(Pool(reg, d))
        InOthers(e) == \A d \in types \ {lead} : Has(reg, d, e)
    IN  SelectSeq(Descending(Pool(reg, lead)), InOthers)

Drop(table, e) == [x \in DOMAIN table \ {e} |-> table[x]]

Put(table, e, v) == [x \in DOMAIN table \cup {e} |-> IF x = e THEN v ELSE table[x]]

\* variant: the identifier is the number of live entities
CreateIdCount(reg) ==
    Cardinality(reg.alive) % MaxEntities

\* registry.create(): an identifier that is not live
CreateId(reg) == CHOOSE e \in EntityIds \ reg.alive : \A x \in EntityIds \ reg.alive : e <= x

RegCreate(reg) == [reg EXCEPT !.alive = @ \cup {CreateId(reg)}]

\* variant: the components of the entity stay in their tables
RegDestroyKeepsComponents(reg, e) ==
    [reg EXCEPT !.alive = @ \ {e}]

\* registry.destroy(e): the entity and every component attached to it
RegDestroy(reg, e) ==
    [alive |-> reg.alive \ {e},
     identity |-> Drop(reg.identity, e), position |-> Drop(reg.position, e),
     orientation |-> Drop(reg.orientation, e), scale |-> Drop(reg.scale, e),
     drawable |-> Drop(reg.drawable, e)]

\* variant: a component the entity already has is kept
RegAssignIfAbsent(reg, c, e, v) ==
    LET PutNew(table) == IF e \in DOMAIN table THEN table ELSE Put(table, e, v)
    IN  CASE c = "Identity" -> [reg EXCEPT !.identity = PutNew(@)]
          [] c = "Position" -> [reg EXCEPT !.position = PutNew(@)]
          [] c = "Orientation" -> [reg EXCEPT !.orientation = PutNew(@)]
          [] c = "Scale" -> [reg EXCEPT !.scale = PutNew(@)]
          [] c = "Drawable" -> [reg EXCEPT !.drawable = PutNew(@)]

\* registry.assign<C>(e, v)
RegAssign(reg, c, e, v) ==
    CASE c = "Identity" -> [reg EXCEPT !.identity = Put(@, e, v)]
      [] c = "Position" -> [reg EXCEPT !.position = Put(@, e, v)]
      [] c = "Orientation" -> [reg EXCEPT !.orientation = Put(@, e, v)]
      [] c = "Scale" -> [reg EXCEPT !.scale = Put(@, e, v)]
      [] c = "Drawable" -> [reg EXCEPT !.drawable = Put(@, e, v)]

\* registry.try_get<C>(e): the component of type c of e, or none
Get(reg, c, e) ==
    CASE c = "Identity" -> {reg.identity[x] : x \in DOMAIN reg.identity \cap {e}}
      [] c = "Position" -> {reg.position[x] : x \in DOMAIN reg.position \cap {e}}
      [] c = "Orientation" -> {reg.orientation[x] : x \in DOMAIN reg.orientation \cap {e}}
      [] c = "Scale" -> {reg.scale[x] : x \in DOMAIN reg.scale \cap {e}}
      [] c = "Drawable" -> {reg.drawable[x] : x \in DOMAIN reg.drawable \cap {e}}

---------------------------------------------------------------------------
\* Systems

\* one statement of a handler: what was called, with which argument, and
\* the draw requests it submitted
Call(op, arg) == [op |-> op, arg |-> arg, draws |-> <<>>]

\* variant: the two rotations trade places
MouseMoveSystemSwapped(reg, distance) ==
    LET each == Range(View(reg, {"Orientation"}))
        Turn(ori) == Normalized(QMul(QMul(Rotation(distance[1], yAxis), ori),
                                     Rotation(distance[2], xAxis)))
    IN  [reg EXCEPT !.orientation =
            [e \in DOMAIN @ |-> IF e \in each THEN Turn(@[e]) ELSE @[e]]]

\* variant: the product is stored without normalized()
MouseMoveSystemUnnormalized(reg, distance) ==
    LET each == Range(View(reg, {"Orientation"}))
        Turn(ori) == QMul(QMul(Rotation(distance[2], xAxis), ori),
                          Rotation(distance[1], yAxis))
    IN  [reg EXCEPT !.orientation =
            [e \in DOMAIN @ |-> IF e \in each THEN Turn(@[e]) ELSE @[e]]]

MouseMoveSystem(reg, distance) ==
    LET each == Range(View(reg, {"Orientation"}))
        Turn(ori) == Normalized(QMul(QMul(Rotation(distance[2], xAxis), ori),
                                     Rotation(distance[1], yAxis)))
    IN  [reg EXCEPT !.orientation =
            [e \in DOMAIN @ |-> IF e \in each THEN Turn(@[e]) ELSE @[e]]]

\* variant: the step is 45 degrees
MouseReleaseSystemNarrow(reg) ==
    LET each == Range(View(reg, {"Drawable"}))
        Cycle(drawable) ==
            [drawable EXCEPT !.color =
                FromHsv(Hue(drawable.color) + 45 * DegScale, FScale, FScale)]
    IN  [reg EXCEPT !.drawable =
            [e \in DOMAIN @ |-> IF e \in each THEN Cycle(@[e]) ELSE @[e]]]

\* variant: the hue is set to the step rather than advanced by it
MouseReleaseSystemFixed(reg) ==
    LET each == Range(View(reg, {"Drawable"}))
        Cycle(drawable) ==
            [drawable EXCEPT !.color =
                FromHsv(50 * DegScale, FScale, FScale)]
    IN  [reg EXCEPT !.drawable =
            [e \in DOMAIN @ |-> IF e \in each THEN Cycle(@[e]) ELSE @[e]]]

\* variant: the value passed is 1.5
MouseReleaseSystemOverbright(reg) ==
    LET each == Range(View(reg, {"Drawable"}))
        Cycle(drawable) ==
            [drawable EXCEPT !.color =
                FromHsv(Hue(drawable.color) + 50 * DegScale, FScale, (3 * FScale) \div 2)]
    IN  [reg EXCEPT !.drawable =
            [e \in DOMAIN @ |-> IF e \in each THEN Cycle(@[e]) ELSE @[e]]]

\* variant: the view lists Identity as well
MouseReleaseSystemIdentified(reg) ==
    LET each == Range(View(reg, {"Drawable", "Identity"}))
        Cycle(drawable) ==
            [drawable EXCEPT !.color =
                FromHsv(Hue(drawable.color) + 50 * DegScale, FScale, FScale)]
    IN  [reg EXCEPT !.drawable =
            [e \in DOMAIN @ |-> IF e \in each THEN Cycle(@[e]) ELSE @[e]]]

\* variant: the pass also replaces the shader
MouseReleaseSystemReshades(reg) ==
    LET each == Range(View(reg, {"Drawable"}))
        Cycle(drawable) ==
            [drawable EXCEPT !.color =
                FromHsv(Hue(drawable.color) + 50 * DegScale, FScale, FScale),
                             !.shader = "Flat"]
    IN  [reg EXCEPT !.drawable =
            [e \in DOMAIN @ |-> IF e \in each THEN Cycle(@[e]) ELSE @[e]]]

MouseReleaseSystem(reg) ==
    LET each == Range(View(reg, {"Drawable"}))
        Cycle(drawable) ==
            [drawable EXCEPT !.color =
                FromHsv(Hue(drawable.color) + 50 * DegScale, FScale, FScale)]
    IN  [reg EXCEPT !.drawable =
            [e \in DOMAIN @ |-> IF e \in each THEN Cycle(@[e]) ELSE @[e]]]

\* the transform of one entity, as the render pass composes it
Transform(reg, e) ==
    MatMul(MatMul(Scaling(reg.scale[e]),
                  RotationMatrix(Angle(reg.orientation[e]),
                                 NormalizedVector(Axis(reg.orientation[e])))),
           Translation(reg.position[e]))

\* variant: the ambient colour does not take the hue of the entity's colour
DrawRequestPlainAmbient(reg, e, proj) ==
    [entity |-> e,
     diffuse |-> reg.drawable[e].color,
     ambient |-> FromHsv(0, FScale, (3 * FScale) \div 10),
     transformation |-> Transform(reg, e),
     normal |-> RotationScaling(Transform(reg, e)),
     projection |-> proj]

\* the uniforms set on the shader of one entity, and the draw of its mesh
DrawRequest(reg, e, proj) ==
    [entity |-> e,
     diffuse |-> reg.drawable[e].color,
     ambient |-> FromHsv(Hue(reg.drawable[e].color), FScale, (3 * FScale) \div 10),
     transformation |-> Transform(reg, e),
     normal |-> RotationScaling(Transform(reg, e)),
     projection |-> proj]

\* variant: the view does not list Identity
RenderSystemNoIdentity(reg, proj) ==
    LET each == View(reg, {"Position", "Orientation", "Scale", "Drawable"})
    IN  [i \in 1..Len(each) |-> DrawRequest(reg, each[i], proj)]

\* the draw requests of one render pass, in iteration order
RenderSystem(reg, proj) ==
    LET each == View(reg, {"Identity", "Position", "Orientation", "Scale", "Drawable"})
    IN  [i \in 1..Len(each) |-> DrawRequest(reg, each[i], proj)]

\* the requests submitted before Matrix4::rotation is handed an axis that is
\* not normalized
BeforeAssert(draws) ==
    LET bad == {i \in DOMAIN draws : draws[i].transformation.nan}
        first == CHOOSE i \in bad : \A j \in bad : i <= j
    IN  IF bad = {} THEN draws ELSE SubSeq(draws, 1, first - 1)

\* the ways a render pass can end: every request submitted, or, when an
\* axis is not normalized and assertions are compiled in, the program
\* stopped at that entity
RenderOutcomes(reg, proj) ==
    LET draws == RenderSystem(reg, proj)
    IN  {[draws |-> draws, aborted |-> FALSE]}
        \cup {[draws |-> BeforeAssert(draws), aborted |-> TRUE] :
                 i \in {j \in DOMAIN draws : draws[j].transformation.nan}}

\* variant: the stub resets every orientation
AnimationSystemResets(reg) ==
    [reg EXCEPT !.orientation = [e \in DOMAIN @ |-> <<0, 0, 0, FScale>>]]

\* Debug() << "Animating.."
AnimationSystem(reg) ==
    reg

\* Debug() << "Simulating.."
PhysicsSystem(reg) ==
    reg

---------------------------------------------------------------------------
\* ECSExample

Buttons == {"Left", "Right"}

PointerPositions == {<<100, 100>>, <<110, 100>>, <<100, 130>>}

\* where the pointer is let go (the release handler does not read it)
ReleasePositions == {<<100, 130>>}

\* the buttons a move reports as held
MoveButtons == {{}, {"Left"}, {"Left", "Right"}}

ViewportSizes == {<<800, 600>>}

sensitivity == 3

\* Matrix4::perspectiveProjection(fov, aspect, near, far) * translation(z),
\* kept as the parameters that determine it
Projection(windowSize) ==
    <<35 * DegScale, RDiv(windowSize[1] * FScale, windowSize[2]),
      FScale \div 100, 100 * FScale, -10 * FScale>>

InitialOrientation == Rotation(InitialAngle, yAxis)

BoxDrawable ==
    [mesh |-> "cubeSolid", shader |-> "Phong",
     color |-> <<(4 * FScale) \div 10, (2 * FScale) \div 10, (9 * FScale) \div 10, FScale>>]

\* the registry the constructor builds: one entity with five components
ConstructedRegistry ==
    LET r0 == RegCreate(EmptyRegistry)
        box == CreateId(EmptyRegistry)
        r1 == RegAssign(r0, "Identity", box, "Box")
        r2 == RegAssign(r1, "Position", box, <<0, 0, 0>>)
        r3 == RegAssign(r2, "Orientation", box, InitialOrientation)
        r4 == RegAssign(r3, "Scale", box, <<FScale, FScale, FScale>>)
    IN  RegAssign(r4, "Drawable", box, BoxDrawable)

\* an event as delivered; afterPress tells whether a primary press was on
\* record when it arrived
Event(kind, buttons, position) ==
    [kind |-> kind, buttons |-> buttons, position |-> position,
     afterPress |-> pressRecorded]

NoEvent == [kind |-> "none", buttons |-> {}, position |-> <<0, 0>>, afterPress |-> FALSE]

---------------------------------------------------------------------------
\* The collaborators at start

ResourceKeys == {"mesh", "shader"}

\* what the manager holds under a key
Resource(data, state, policy) == [data |-> data, state |-> state, policy |-> policy]

\* a key the manager has not been given: its state reads NotLoaded
NotLoaded == Resource("nullptr", "NotLoaded", "Resident")

\* AbstractResourceLoader(): all three counters zero; no key has been
\* handed to the manager yet, and the implementation of doLoad owes no
\* answer for any key
ConstructedLoader ==
    [requestedCount |-> 0, loadedCount |-> 0, notFoundCount |-> 0,
     manager |-> [key \in ResourceKeys |-> NotLoaded],
     pending |-> [key \in ResourceKeys |-> 0]]

\* no Debug, Warning or Error instance is alive; Debug writes to std::cout,
\* Warning and Error to std::cerr
DebugAtStart ==
    [globalOutput |-> "cout", globalWarningOutput |-> "cerr",
     globalErrorOutput |-> "cerr", instances |-> <<>>, nested |-> TRUE]

\* no image has been constructed and no array released
NoImages == [images |-> <<>>, returned |-> <<>>, op |-> [name |-> "none", at |-> 0]]

\* no loader and no manager has been constructed
NothingRegistered == [loaders |-> <<>>, managers |-> <<>>]

NoView == [types |-> {}, result |-> <<>>]

Init ==
    /\ registry = ConstructedRegistry
    /\ previousMousePosition = <<0, 0>>
    /\ viewport \in ViewportSizes
    /\ projection = Projection(viewport)
    /\ redrawFlag = TRUE
    /\ calls = <<>>
    /\ event = NoEvent
    /\ pressRecorded = FALSE
    /\ nMoves = 0
    /\ nReleases = 0
    /\ viewed = NoView
    /\ steps = 0
    /\ aborted = FALSE
    /\ initial = registry
    /\ running = <<>>
    /\ loader = ConstructedLoader
    /\ debug = DebugAtStart
    /\ image = NoImages
    /\ registration = NothingRegistered

\* variant: the frame is presented before it is rendered
drawEventSwapFirst ==
    /\ ~aborted
    /\ redrawFlag
    /\ redrawFlag' = FALSE
    /\ event' = Event("draw", {}, <<0, 0>>)
    /\ calls' = << Call("defaultFramebuffer.clear(Color|Depth)", <<>>),
                   Call("swapBuffers", <<>>),
                   [op |-> "RenderSystem", arg |-> projection,
                    draws |-> RenderSystem(registry, projection)] >>
    /\ UNCHANGED <<registry, previousMousePosition, projection, viewport,
                   nMoves, nReleases, viewed, steps, pressRecorded, aborted, initial, running,
                   loader, debug, image, registration>>

drawEvent ==
    /\ ~aborted
    /\ redrawFlag
    /\ redrawFlag' = FALSE
    /\ event' = Event("draw", {}, <<0, 0>>)
    /\ \E out \in RenderOutcomes(registry, projection) :
          /\ aborted' = out.aborted
          /\ calls' = << Call("defaultFramebuffer.clear(Color|Depth)", <<>>),
                         [op |-> "RenderSystem", arg |-> projection,
                          draws |-> out.draws] >>
                      \o (IF out.aborted THEN <<>> ELSE << Call("swapBuffers", <<>>) >>)
    /\ UNCHANGED <<registry, previousMousePosition, projection, viewport,
                   nMoves, nReleases, viewed, steps, pressRecorded, initial, running,
                   loader, debug, image, registration>>

\* variant: a press also requests a redraw
mousePressEventRedraws(button, position) ==
    /\ ~aborted
    /\ event' = Event("press", {button}, position)
    /\ pressRecorded' = (pressRecorded \/ button = "Left")
    /\ IF button # "Left"
       THEN /\ calls' = <<>>
            /\ UNCHANGED <<previousMousePosition, redrawFlag>>
       ELSE /\ previousMousePosition' = position
            /\ redrawFlag' = TRUE
            /\ calls' = << Call("_previousMousePosition", position),
                           Call("setAccepted", <<>>),
                           Call("redraw", <<>>) >>
    /\ UNCHANGED <<registry, projection, viewport, nMoves,
                   nReleases, viewed, steps, aborted, initial, running,
                   loader, debug, image, registration>>

\* variant: a press of any button records the position
mousePressEventAnyButton(button, position) ==
    /\ ~aborted
    /\ event' = Event("press", {button}, position)
    /\ pressRecorded' = (pressRecorded \/ button = "Left")
    /\ previousMousePosition' = position
    /\ calls' = << Call("_previousMousePosition", position),
                   Call("setAccepted", <<>>) >>
    /\ UNCHANGED <<registry, projection, viewport, redrawFlag, nMoves,
                   nReleases, viewed, steps, aborted, initial, running,
                   loader, debug, image, registration>>

mousePressEvent(button, position) ==
    /\ ~aborted
    /\ event' = Event("press", {button}, position)
    /\ pressRecorded' = (pressRecorded \/ button = "Left")
    /\ IF button # "Left"
       THEN /\ calls' = <<>>
            /\ UNCHANGED previousMousePosition
       ELSE /\ previousMousePosition' = position
            /\ calls' = << Call("_previousMousePosition", position),
                           Call("setAccepted", <<>>) >>
    /\ UNCHANGED <<registry, projection, viewport, redrawFlag, nMoves,
                   nReleases, viewed, steps, aborted, initial, running,
                   loader, debug, image, registration>>

\* the statements of a primary release
ReleaseCalls ==
    << Call("MouseReleaseSystem", <<>>), Call("setAccepted", <<>>), Call("redraw", <<>>) >>

\* variant: a release also records the pointer position
mouseReleaseEventStores(button, position) ==
    /\ ~aborted
    /\ event' = Event("release", {button}, position)
    /\ pressRecorded' = (pressRecorded /\ button # "Left")
    /\ IF button # "Left"
       THEN /\ calls' = <<>>
            /\ UNCHANGED <<registry, redrawFlag, nReleases, previousMousePosition>>
       ELSE /\ nReleases < MaxReleases
            /\ nReleases' = nReleases + 1
            /\ registry' = MouseReleaseSystem(registry)
            /\ previousMousePosition' = position
            /\ calls' = ReleaseCalls
            /\ redrawFlag' = TRUE
    /\ UNCHANGED <<projection, viewport, nMoves, viewed, steps, aborted, initial, running,
                   loader, debug, image, registration>>

\* variant: a release acts only when a press is on record
mouseReleaseEventMatched(button, position) ==
    /\ ~aborted
    /\ event' = Event("release", {button}, position)
    /\ pressRecorded' = (pressRecorded /\ button # "Left")
    /\ IF button # "Left" \/ ~pressRecorded
       THEN /\ calls' = <<>>
            /\ UNCHANGED <<registry, redrawFlag, nReleases>>
       ELSE /\ nReleases < MaxReleases
            /\ nReleases' = nReleases + 1
            /\ registry' = MouseReleaseSystem(registry)
            /\ calls' = ReleaseCalls
            /\ redrawFlag' = TRUE
    /\ UNCHANGED <<previousMousePosition, projection, viewport, nMoves,
                   viewed, steps, aborted, initial, running,
                   loader, debug, image, registration>>

mouseReleaseEvent(button, position) ==
    /\ ~aborted
    /\ event' = Event("release", {button}, position)
    /\ pressRecorded' = (pressRecorded /\ button # "Left")
    /\ IF button # "Left"
       THEN /\ calls' = <<>>
            /\ UNCHANGED <<registry, redrawFlag, nReleases>>
       ELSE /\ nReleases < MaxReleases
            /\ nReleases' = nReleases + 1
            /\ registry' = MouseReleaseSystem(registry)
            /\ calls' = ReleaseCalls
            /\ redrawFlag' = TRUE
    /\ UNCHANGED <<previousMousePosition, projection, viewport, nMoves,
                   viewed, steps, aborted, initial, running,
                   loader, debug, image, registration>>

\* variant: the sensitivity factor is left out
DistanceUnscaled(position, previous, size) ==
    [i \in 1..2 |-> RDiv((position[i] - previous[i]) * FScale, size[i])]

\* (position - _previousMousePosition) / viewport * sensitivity
Distance(position, previous, size) ==
    [i \in 1..2 |-> RDiv((position[i] - previous[i]) * FScale, size[i]) * sensitivity]

\* the statements of a drag by distance to position
MoveCalls(distance, position) ==
    << Call("MouseMoveSystem", distance), Call("_previousMousePosition", position),
       Call("setAccepted", <<>>), Call("redraw", <<>>) >>

\* variant: the position is recorded before the distance is computed
mouseMoveEventStoreFirst(buttons, position) ==
    /\ ~aborted
    /\ event' = Event("move", buttons, position)
    /\ IF "Left" \notin buttons
       THEN /\ calls' = <<>>
            /\ UNCHANGED <<registry, previousMousePosition, redrawFlag, nMoves>>
       ELSE /\ nMoves < MaxMoves
            /\ previousMousePosition' = position
            /\ LET distance == Distance(position, previousMousePosition', viewport)
               IN  /\ registry' = MouseMoveSystem(registry, distance)
                   /\ calls' = << Call("_previousMousePosition", position),
                                  Call("MouseMoveSystem", distance),
                                  Call("setAccepted", <<>>), Call("redraw", <<>>) >>
            /\ redrawFlag' = TRUE
            /\ nMoves' = nMoves + 1
    /\ UNCHANGED <<projection, viewport, nReleases, viewed, steps,
                   pressRecorded, aborted, initial, running,
                   loader, debug, image, registration>>

\* variant: a drag acts only when a press is on record
mouseMoveEventMatched(buttons, position) ==
    /\ ~aborted
    /\ event' = Event("move", buttons, position)
    /\ IF "Left" \notin buttons \/ ~pressRecorded
       THEN /\ calls' = <<>>
            /\ UNCHANGED <<registry, previousMousePosition, redrawFlag, nMoves>>
       ELSE /\ nMoves < MaxMoves
            /\ LET distance == Distance(position, previousMousePosition, viewport)
               IN  /\ registry' = MouseMoveSystem(registry, distance)
                   /\ calls' = MoveCalls(distance, position)
            /\ previousMousePosition' = position
            /\ redrawFlag' = TRUE
            /\ nMoves' = nMoves + 1
    /\ UNCHANGED <<projection, viewport, nReleases, viewed, steps,
                   pressRecorded, aborted, initial, running,
                   loader, debug, image, registration>>

\* variant: a drag requests no redraw
mouseMoveEventNoRedraw(buttons, position) ==
    /\ ~aborted
    /\ event' = Event("move", buttons, position)
    /\ IF "Left" \notin buttons
       THEN /\ calls' = <<>>
            /\ UNCHANGED <<registry, previousMousePosition, redrawFlag, nMoves>>
       ELSE /\ nMoves < MaxMoves
            /\ LET distance == Distance(position, previousMousePosition, viewport)
               IN  /\ registry' = MouseMoveSystem(registry, distance)
                   /\ calls' = SubSeq(MoveCalls(distance, position), 1, 3)
            /\ previousMousePosition' = position
            /\ redrawFlag' = redrawFlag
            /\ nMoves' = nMoves + 1
    /\ UNCHANGED <<projection, viewport, nReleases, viewed, steps,
                   pressRecorded, aborted, initial, running,
                   loader, debug, image, registration>>

\* variant: the recorded position stays that of the press
mouseMoveEventFromPress(buttons, position) ==
    /\ ~aborted
    /\ event' = Event("move", buttons, position)
    /\ IF "Left" \notin buttons
       THEN /\ calls' = <<>>
            /\ UNCHANGED <<registry, previousMousePosition, redrawFlag, nMoves>>
       ELSE /\ nMoves < MaxMoves
            /\ LET distance == Distance(position, previousMousePosition, viewport)
               IN  /\ registry' = MouseMoveSystem(registry, distance)
                   /\ calls' = MoveCalls(distance, position)
            /\ previousMousePosition' = previousMousePosition
            /\ redrawFlag' = TRUE
            /\ nMoves' = nMoves + 1
    /\ UNCHANGED <<projection, viewport, nReleases, viewed, steps,
                   pressRecorded, aborted, initial, running,
                   loader, debug, image, registration>>

mouseMoveEvent(buttons, position) ==
    /\ ~aborted
    /\ event' = Event("move", buttons, position)
    /\ IF "Left" \notin buttons
       THEN /\ calls' = <<>>
            /\ UNCHANGED <<registry, previousMousePosition, redrawFlag, nMoves>>
       ELSE /\ nMoves < MaxMoves
            /\ LET distance == Distance(position, previousMousePosition, viewport)
               IN  /\ registry' = MouseMoveSystem(registry, distance)
                   /\ calls' = MoveCalls(distance, position)
            /\ previousMousePosition' = position
            /\ redrawFlag' = TRUE
            /\ nMoves' = nMoves + 1
    /\ UNCHANGED <<projection, viewport, nReleases, viewed, steps,
                   pressRecorded, aborted, initial, running,
                   loader, debug, image, registration>>

Next ==
    \/ drawEvent
    \/ \E button \in Buttons, position \in PointerPositions :
           mousePressEvent(button, position)
    \/ \E button \in Buttons, position \in ReleasePositions :
           mouseReleaseEvent(button, position)
    \/ \E buttons \in MoveButtons, position \in PointerPositions :
           mouseMoveEvent(buttons, position)

Spec == Init /\ [][Next]_vars

---------------------------------------------------------------------------
\* The registry on its own: any client creating and destroying entities,
\* assigning components, querying views and running a render pass

\* the value a client assigns for each component type
ComponentValues(c) ==
    CASE c = "Identity" -> {"Box"}
      [] c = "Position" -> {<<0, 0, 0>>}
      [] c = "Orientation" -> {InitialOrientation}
      [] c = "Scale" -> {<<FScale, FScale, FScale>>}
      [] c = "Drawable" -> {BoxDrawable}

\* entities {e0: {Position, Scale}, e1: {Position}, e2: {Scale}, e3: {Position, Scale}}
ScenarioRegistry ==
    LET e0 == CreateId(EmptyRegistry)
        r0 == RegCreate(EmptyRegistry)
        e1 == CreateId(r0)
        r1 == RegCreate(r0)
        e2 == CreateId(r1)
        r2 == RegCreate(r1)
        e3 == CreateId(r2)
        r3 == RegCreate(r2)
        r4 == RegAssign(r3, "Position", e0, <<0, 0, 0>>)
        r5 == RegAssign(r4, "Scale", e0, <<FScale, FScale, FScale>>)
        r6 == RegAssign(r5, "Position", e1, <<FScale, 0, 0>>)
        r7 == RegAssign(r6, "Scale", e2, <<FScale, FScale, FScale>>)
        r8 == RegAssign(r7, "Position", e3, <<0, 0, 0>>)
    IN  RegAssign(r8, "Scale", e3, <<FScale, FScale, FScale>>)

Scenes == {EmptyRegistry, ConstructedRegistry, ScenarioRegistry}

ViewLists == {{"Position", "Scale"}, {"Position"}, {"Orientation"}, {"Drawable"},
              ComponentTypes}

RegistryInit ==
    /\ registry \in Scenes
    /\ previousMousePosition = <<0, 0>>
    /\ viewport \in ViewportSizes
    /\ projection = Projection(viewport)
    /\ redrawFlag = TRUE
    /\ calls = <<>>
    /\ event = NoEvent
    /\ pressRecorded = FALSE
    /\ nMoves = 0
    /\ nReleases = 0
    /\ viewed = NoView
    /\ steps = 0
    /\ aborted = FALSE
    /\ initial = registry
    /\ running = <<>>
    /\ loader = ConstructedLoader
    /\ debug = DebugAtStart
    /\ image = NoImages
    /\ registration = NothingRegistered

clientVars == <<previousMousePosition, projection, viewport, redrawFlag, event,
                pressRecorded, nMoves, nReleases, initial, running,
                   loader, debug, image, registration>>

create ==
    /\ ~aborted
    /\ steps < MaxSteps
    /\ registry.alive # EntityIds
    /\ registry' = RegCreate(registry)
    /\ calls' = << Call("create", <<CreateId(registry)>>) >>
    /\ steps' = steps + 1
    /\ viewed' = NoView
    /\ UNCHANGED <<clientVars, aborted>>

\* variant: destroying an entity that is not live does nothing
destroySilently(e) ==
    /\ ~aborted
    /\ steps < MaxSteps
    /\ calls' = << Call("destroy", <<e>>) >>
    /\ steps' = steps + 1
    /\ viewed' = NoView
    /\ IF e \in registry.alive
       THEN registry' = RegDestroy(registry, e)
       ELSE UNCHANGED registry
    /\ UNCHANGED <<clientVars, aborted>>

destroy(e) ==
    /\ ~aborted
    /\ steps < MaxSteps
    /\ calls' = << Call("destroy", <<e>>) >>
    /\ steps' = steps + 1
    /\ viewed' = NoView
    /\ IF e \in registry.alive
       THEN registry' = RegDestroy(registry, e) /\ UNCHANGED aborted
       ELSE aborted' = TRUE /\ UNCHANGED registry
    /\ UNCHANGED clientVars

\* variant: assigning to an entity that is not live brings it to life
assignRevives(c, e, v) ==
    /\ ~aborted
    /\ steps < MaxSteps
    /\ calls' = << Call("assign", <<e, c, v>>) >>
    /\ steps' = steps + 1
    /\ viewed' = NoView
    /\ registry' = RegAssign([registry EXCEPT !.alive = @ \cup {e}], c, e, v)
    /\ UNCHANGED <<clientVars, aborted>>

assign(c, e, v) ==
    /\ ~aborted
    /\ steps < MaxSteps
    /\ calls' = << Call("assign", <<e, c, v>>) >>
    /\ steps' = steps + 1
    /\ viewed' = NoView
    /\ IF e \in registry.alive
       THEN registry' = RegAssign(registry, c, e, v) /\ UNCHANGED aborted
       ELSE aborted' = TRUE /\ UNCHANGED registry
    /\ UNCHANGED clientVars

view(types) ==
    /\ ~aborted
    /\ viewed' = [types |-> types, result |-> View(registry, types)]
    /\ calls' = << Call("view", <<>>) >>
    /\ UNCHANGED <<registry, steps, clientVars, aborted>>

\* variant: the pass stores the ambient colour in the Drawable it draws
renderPassStoresAmbient ==
    /\ ~aborted
    /\ \E out \in RenderOutcomes(registry, projection) :
          /\ aborted' = out.aborted
          /\ calls' = << [op |-> "RenderSystem", arg |-> projection,
                          draws |-> out.draws] >>
          /\ registry' = [registry EXCEPT !.drawable =
                [e \in DOMAIN registry.drawable |->
                    IF \E i \in DOMAIN out.draws : out.draws[i].entity = e
                    THEN [registry.drawable[e] EXCEPT !.color = out.draws[
                            CHOOSE i \in DOMAIN out.draws : out.draws[i].entity = e].ambient]
                    ELSE registry.drawable[e]]]
    /\ viewed' = NoView
    /\ UNCHANGED <<steps, clientVars>>

renderPass ==
    /\ ~aborted
    /\ \E out \in RenderOutcomes(registry, projection) :
          /\ aborted' = out.aborted
          /\ calls' = << [op |-> "RenderSystem", arg |-> projection,
                          draws |-> out.draws] >>
    /\ viewed' = NoView
    /\ UNCHANGED <<registry, steps, clientVars>>

\* the drag distances a client passes to the Input-Rotation System
Distances == {<<375, 0>>, <<0, 1500>>, <<375, -1500>>}

moveSystemPass(distance) ==
    /\ ~aborted
    /\ steps < MaxSteps
    /\ registry' = MouseMoveSystem(registry, distance)
    /\ calls' = << Call("MouseMoveSystem", distance) >>
    /\ steps' = steps + 1
    /\ viewed' = NoView
    /\ UNCHANGED <<clientVars, aborted>>

RegistryNext ==
    \/ create
    \/ \E e \in EntityIds : destroy(e)
    \/ \E c \in ComponentTypes, e \in EntityIds :
           \E v \in ComponentValues(c) : assign(c, e, v)
    \/ \E types \in ViewLists : view(types)
    \/ renderPass
    \/ \E distance \in Distances : moveSystemPass(distance)

SpecRegistry == RegistryInit /\ [][RegistryNext]_vars

---------------------------------------------------------------------------
\* The systems on their own: passes of the Release-Color, Render, Animation
\* and Physics systems over registries of several entities

Colored(color) == [mesh |-> "cubeSolid", shader |-> "Phong", color |-> color]

IdentityOrientation == <<0, 0, 0, FScale>>

\* e0: the five components, at the origin, not rotated, scaled by two;
\* e1: the five components, away from the origin, rotated, scaled by two;
\* e2: Position and a grey Drawable; e3: everything but a Drawable
StageRegistry ==
    LET r0 == RegCreate(RegCreate(RegCreate(RegCreate(EmptyRegistry))))
        r1 == RegAssign(RegAssign(RegAssign(RegAssign(r0,
                  "Identity", 0, "Origin"), "Position", 0, <<0, 0, 0>>),
                  "Orientation", 0, IdentityOrientation), "Scale", 0, <<2 * FScale, 2 * FScale, 2 * FScale>>)
        r2 == RegAssign(r1, "Drawable", 0, Colored(<<FScale, 0, 0, FScale>>))
        r3 == RegAssign(RegAssign(RegAssign(RegAssign(r2,
                  "Identity", 1, "Away"), "Position", 1, <<FScale, 0, 0>>),
                  "Orientation", 1, InitialOrientation),
                  "Scale", 1, <<2 * FScale, 2 * FScale, 2 * FScale>>)
        r4 == RegAssign(r3, "Drawable", 1,
                  Colored(<<FScale \div 2, FScale \div 4, FScale \div 4, FScale>>))
        r5 == RegAssign(RegAssign(r4, "Position", 2, <<0, 0, 0>>), "Drawable", 2,
                  Colored(<<FScale \div 2, FScale \div 2, FScale \div 2, FScale>>))
    IN  RegAssign(RegAssign(RegAssign(RegAssign(r5,
            "Identity", 3, "Bare"), "Position", 3, <<0, FScale, 0>>),
            "Orientation", 3, InitialOrientation), "Scale", 3, <<FScale, FScale, FScale>>)

\* e0: the five components, away from the origin, rotated, scaled unevenly;
\* e1: a Drawable alone
UnevenRegistry ==
    LET r0 == RegCreate(RegCreate(EmptyRegistry))
        r1 == RegAssign(RegAssign(RegAssign(RegAssign(r0,
                  "Identity", 0, "Uneven"), "Position", 0, <<0, FScale, -FScale>>),
                  "Orientation", 0, InitialOrientation),
                  "Scale", 0, <<FScale, 2 * FScale, FScale>>)
        r2 == RegAssign(r1, "Drawable", 0,
                  Colored(<<FScale \div 5, (3 * FScale) \div 5, (3 * FScale) \div 10, FScale>>))
    IN  RegAssign(r2, "Drawable", 1, Colored(<<0, 0, FScale, FScale \div 2>>))

SystemScenes == {ConstructedRegistry, StageRegistry, UnevenRegistry}

SystemsInit ==
    /\ registry \in SystemScenes
    /\ previousMousePosition = <<0, 0>>
    /\ viewport \in ViewportSizes
    /\ projection = Projection(viewport)
    /\ redrawFlag = TRUE
    /\ calls = <<>>
    /\ event = NoEvent
    /\ pressRecorded = FALSE
    /\ nMoves = 0
    /\ nReleases = 0
    /\ viewed = NoView
    /\ steps = 0
    /\ aborted = FALSE
    /\ initial = registry
    /\ running = <<>>
    /\ loader = ConstructedLoader
    /\ debug = DebugAtStart
    /\ image = NoImages
    /\ registration = NothingRegistered

driverVars == <<previousMousePosition, projection, viewport, redrawFlag, event,
                pressRecorded, nMoves, viewed, steps, aborted, initial, running,
                   loader, debug, image, registration>>

releaseSystemPass ==
    /\ ~aborted
    /\ nReleases < MaxCycles
    /\ registry' = MouseReleaseSystem(registry)
    /\ calls' = << Call("MouseReleaseSystem", <<>>) >>
    /\ nReleases' = nReleases + 1
    /\ UNCHANGED driverVars

animationPass ==
    /\ ~aborted
    /\ registry' = AnimationSystem(registry)
    /\ calls' = << Call("AnimationSystem", <<>>) >>
    /\ UNCHANGED <<driverVars, nReleases>>

physicsPass ==
    /\ ~aborted
    /\ registry' = PhysicsSystem(registry)
    /\ calls' = << Call("PhysicsSystem", <<>>) >>
    /\ UNCHANGED <<driverVars, nReleases>>

SystemsNext ==
    \/ releaseSystemPass
    \/ renderPass
    \/ animationPass
    \/ physicsPass

SpecSystems == SystemsInit /\ [][SystemsNext]_vars

---------------------------------------------------------------------------
\* The handlers of ECSExample executed statement by statement: a handler
\* is entered, its system visits the entities of its view one after the
\* other, and the handler returns

\* two boxes, the second away from the origin
PairRegistry ==
    LET r0 == RegCreate(ConstructedRegistry)
        r1 == RegAssign(RegAssign(RegAssign(RegAssign(r0,
                  "Identity", 1, "Box"), "Position", 1, <<FScale, 0, 0>>),
                  "Orientation", 1, InitialOrientation), "Scale", 1, <<FScale, FScale, FScale>>)
    IN  RegAssign(r1, "Drawable", 1, BoxDrawable)

LoopScenes == {ConstructedRegistry, PairRegistry}

LoopInit ==
    /\ registry \in LoopScenes
    /\ previousMousePosition = <<0, 0>>
    /\ viewport \in ViewportSizes
    /\ projection = Projection(viewport)
    /\ redrawFlag = TRUE
    /\ calls = <<>>
    /\ event = NoEvent
    /\ pressRecorded = FALSE
    /\ nMoves = 0
    /\ nReleases = 0
    /\ viewed = NoView
    /\ steps = 0
    /\ aborted = FALSE
    /\ initial = registry
    /\ running = <<>>
    /\ loader = ConstructedLoader
    /\ debug = DebugAtStart
    /\ image = NoImages
    /\ registration = NothingRegistered

\* the component types each system lists in its view
Listed(system) ==
    CASE system = "MouseMoveSystem" -> {"Orientation"}
      [] system = "MouseReleaseSystem" -> {"Drawable"}
      [] system = "RenderSystem" -> ComponentTypes

\* a system called by a handler, about to visit the entities of its view
Pass(handler, system, arg) ==
    [handler |-> handler, system |-> system, arg |-> arg,
     pending |-> View(registry, Listed(system))]

\* variant: a redraw tick is served while a pass is in progress
enterDrawEventNested ==
    /\ ~aborted
    /\ redrawFlag
    /\ redrawFlag' = FALSE
    /\ event' = Event("draw", {}, <<0, 0>>)
    /\ calls' = << Call("defaultFramebuffer.clear(Color|Depth)", <<>>),
                   [op |-> "RenderSystem", arg |-> projection, draws |-> <<>>] >>
    /\ running' = << Pass("drawEvent", "RenderSystem", projection) >> \o running
    /\ UNCHANGED <<registry, previousMousePosition, projection, viewport,
                   nMoves, nReleases, viewed, steps, pressRecorded, aborted, initial,
                   loader, debug, image, registration>>

enterDrawEvent ==
    /\ ~aborted
    /\ running = <<>>
    /\ redrawFlag
    /\ redrawFlag' = FALSE
    /\ event' = Event("draw", {}, <<0, 0>>)
    /\ calls' = << Call("defaultFramebuffer.clear(Color|Depth)", <<>>),
                   [op |-> "RenderSystem", arg |-> projection, draws |-> <<>>] >>
    /\ running' = << Pass("drawEvent", "RenderSystem", projection) >>
    /\ UNCHANGED <<registry, previousMousePosition, projection, viewport,
                   nMoves, nReleases, viewed, steps, pressRecorded, aborted, initial,
                   loader, debug, image, registration>>

enterMouseReleaseEvent(position) ==
    /\ ~aborted
    /\ running = <<>>
    /\ nReleases < MaxReleases
    /\ nReleases' = nReleases + 1
    /\ event' = Event("release", {"Left"}, position)
    /\ pressRecorded' = FALSE
    /\ calls' = << Call("MouseReleaseSystem", <<>>) >>
    /\ running' = << Pass("mouseReleaseEvent", "MouseReleaseSystem", <<>>) >>
    /\ UNCHANGED <<registry, previousMousePosition, projection, viewport, redrawFlag,
                   nMoves, viewed, steps, aborted, initial,
                   loader, debug, image, registration>>

enterMouseMoveEvent(buttons, position) ==
    /\ ~aborted
    /\ running = <<>>
    /\ "Left" \in buttons
    /\ nMoves < MaxMoves
    /\ nMoves' = nMoves + 1
    /\ event' = Event("move", buttons, position)
    /\ LET distance == Distance(position, previousMousePosition, viewport)
       IN  /\ calls' = << Call("MouseMoveSystem", distance) >>
           /\ running' = << Pass("mouseMoveEvent", "MouseMoveSystem", distance) >>
    /\ UNCHANGED <<registry, previousMousePosition, projection, viewport, redrawFlag,
                   nReleases, viewed, steps, pressRecorded, aborted, initial,
                   loader, debug, image, registration>>

\* variant: the Release-Color pass makes a new entity at each entity it visits
visitSpawns ==
    /\ ~aborted
    /\ running # <<>>
    /\ Head(running).pending # <<>>
    /\ LET pass == Head(running)
           e == Head(pass.pending)
       IN  /\ running' = << [pass EXCEPT !.pending = Tail(@)] >> \o Tail(running)
           /\ CASE pass.system = "MouseMoveSystem" ->
                     /\ registry' = [registry EXCEPT !.orientation[e] =
                                        MouseMoveSystem(registry, pass.arg).orientation[e]]
                     /\ UNCHANGED <<calls, aborted>>
                [] pass.system = "MouseReleaseSystem" ->
                     /\ registry' = [RegCreate(registry) EXCEPT !.drawable[e] =
                                        MouseReleaseSystem(registry).drawable[e]]
                     /\ UNCHANGED <<calls, aborted>>
                [] pass.system = "RenderSystem" ->
                     /\ \E stop \in {FALSE} \cup {Transform(registry, e).nan} :
                           /\ aborted' = stop
                           /\ calls' = IF stop THEN calls
                                       ELSE [calls EXCEPT ![Len(calls)].draws =
                                               Append(@, DrawRequest(registry, e, pass.arg))]
                     /\ UNCHANGED registry
    /\ UNCHANGED <<previousMousePosition, projection, viewport, redrawFlag, event,
                   pressRecorded, nMoves, nReleases, viewed, steps, initial,
                   loader, debug, image, registration>>

\* the innermost pass visits the next entity of its view
visit ==
    /\ ~aborted
    /\ running # <<>>
    /\ Head(running).pending # <<>>
    /\ LET pass == Head(running)
           e == Head(pass.pending)
       IN  /\ running' = << [pass EXCEPT !.pending = Tail(@)] >> \o Tail(running)
           /\ CASE pass.system = "MouseMoveSystem" ->
                     /\ registry' = [registry EXCEPT !.orientation[e] =
                                        MouseMoveSystem(registry, pass.arg).orientation[e]]
                     /\ UNCHANGED <<calls, aborted>>
                [] pass.system = "MouseReleaseSystem" ->
                     /\ registry' = [registry EXCEPT !.drawable[e] =
                                        MouseReleaseSystem(registry).drawable[e]]
                     /\ UNCHANGED <<calls, aborted>>
                [] pass.system = "RenderSystem" ->
                     /\ \E stop \in {FALSE} \cup {Transform(registry, e).nan} :
                           /\ aborted' = stop
                           /\ calls' = IF stop THEN calls
                                       ELSE [calls EXCEPT ![Len(calls)].draws =
                                               Append(@, DrawRequest(registry, e, pass.arg))]
                     /\ UNCHANGED registry
    /\ UNCHANGED <<previousMousePosition, projection, viewport, redrawFlag, event,
                   pressRecorded, nMoves, nReleases, viewed, steps, initial,
                   loader, debug, image, registration>>

\* the innermost pass has visited its view: the handler runs its remaining
\* statements and returns
leave ==
    /\ ~aborted
    /\ running # <<>>
    /\ Head(running).pending = <<>>
    /\ running' = Tail(running)
    /\ CASE Head(running).handler = "drawEvent" ->
              /\ calls' = Append(calls, Call("swapBuffers", <<>>))
              /\ UNCHANGED <<previousMousePosition, redrawFlag>>
         [] Head(running).handler = "mouseReleaseEvent" ->
              /\ calls' = calls \o << Call("setAccepted", <<>>), Call("redraw", <<>>) >>
              /\ redrawFlag' = TRUE
              /\ UNCHANGED previousMousePosition
         [] Head(running).handler = "mouseMoveEvent" ->
              /\ previousMousePosition' = event.position
              /\ calls' = calls \o << Call("_previousMousePosition", event.position),
                                      Call("setAccepted", <<>>), Call("redraw", <<>>) >>
              /\ redrawFlag' = TRUE
    /\ UNCHANGED <<registry, projection, viewport, event, pressRecorded, nMoves,
                   nReleases, viewed, steps, aborted, initial,
                   loader, debug, image, registration>>

LoopNext ==
    \/ enterDrawEvent
    \/ \E position \in ReleasePositions : enterMouseReleaseEvent(position)
    \/ \E buttons \in MoveButtons, position \in PointerPositions :
           enterMouseMoveEvent(buttons, position)
    \/ \E button \in Buttons, position \in PointerPositions :
           running = <<>> /\ mousePressEvent(button, position)
    \/ visit
    \/ leave

SpecLoop == LoopInit /\ [][LoopNext]_vars

---------------------------------------------------------------------------
\* Properties

SystemNames == {"MouseMoveSystem", "MouseReleaseSystem", "AnimationSystem",
                "PhysicsSystem", "RenderSystem"}

IsSystemCall(c) == c.op \in SystemNames

NotAccept(c) == c.op # "setAccepted"

\* the names of the statements of a handler, in order
Ops(cs) == [i \in DOMAIN cs |-> cs[i].op]

\* the step is a handler called with this kind of event
PrimaryMove == event'.kind = "move" /\ "Left" \in event'.buttons

PrimaryPress == event'.kind = "press" /\ event'.buttons = {"Left"}

PrimaryRelease == event'.kind = "release" /\ event'.buttons = {"Left"}

\* the entities that hold every component type of a list
Holders(reg, types) == {e \in reg.alive : \A c \in types : e \in Pool(reg, c)}

\* C1: a view over a list of component types yields exactly the live
\* entities that hold every listed type, each once; the render pass draws
\* exactly the entities holding all five of its types; the registry
\* {e0: {A, B}, e1: {A}, e2: {B}, e3: {A, B}} viewed over A, B yields {e0, e3}.
ViewIsIntersection ==
    /\ \A types \in (SUBSET ComponentTypes) \ {{}} :
           LET r == View(registry, types)
           IN  /\ Range(r) = Holders(registry, types)
               /\ Len(r) = Cardinality(Holders(registry, types))
    /\ viewed.types # {} =>
           /\ Range(viewed.result) = Holders(registry, viewed.types)
           /\ Len(viewed.result) = Cardinality(Holders(registry, viewed.types))
    /\ \A i \in DOMAIN calls :
           calls[i].op = "RenderSystem" =>
               LET ds == calls[i].draws
                   all == {e \in registry.alive :
                              /\ e \in DOMAIN registry.identity
                              /\ e \in DOMAIN registry.position
                              /\ e \in DOMAIN registry.orientation
                              /\ e \in DOMAIN registry.scale
                              /\ e \in DOMAIN registry.drawable}
               IN  /\ {ds[j].entity : j \in DOMAIN ds} = all
                   /\ Len(ds) = Cardinality(all)
    /\ registry = ScenarioRegistry =>
           Range(View(registry, {"Position", "Scale"})) = {0, 3}

ViewIsIntersectionWitness ==
    /\ registry = ScenarioRegistry
    /\ viewed.types = {"Position", "Scale"}
    /\ Len(viewed.result) = 2
    /\ Range(viewed.result) = {0, 3}

\* C2: the distance handed to the Input-Rotation System is, per axis,
\* (position - recorded position) / viewport size * 3.0 up to rounding, and
\* the orientations change by exactly that distance; from (100,100) to
\* (110,100) in a viewport of (800,600) it is (0.0375, 0).
DragDelta ==
    [][PrimaryMove =>
        /\ Len(calls') > 0
        /\ calls'[1].op = "MouseMoveSystem"
        /\ LET d == calls'[1].arg
           IN  /\ \A i \in 1..2 :
                      2 * Abs(d[i] * viewport[i]
                              - 3 * (event'.position[i] - previousMousePosition[i]) * FScale)
                          <= 3 * viewport[i]
               /\ (/\ previousMousePosition = <<100, 100>>
                   /\ event'.position = <<110, 100>>
                   /\ viewport = <<800, 600>>)
                      => d = <<(375 * FScale) \div 10000, 0>>
               /\ registry' = MouseMoveSystem(registry, d)]_vars

DragDeltaWitness ==
    /\ event.kind = "move" /\ "Left" \in event.buttons /\ event.afterPress
    /\ event.position = <<110, 100>>
    /\ viewport = <<800, 600>>
    /\ Len(calls) > 0
    /\ calls[1].op = "MouseMoveSystem"
    /\ calls[1].arg = <<(375 * FScale) \div 10000, 0>>

\* C3: a move with the primary button held computes the distance against
\* the position recorded before the move, invokes the Input-Rotation System
\* with it, then records the event position, then requests a redraw, each
\* once, and invokes no other system.
MoveSequence ==
    [][PrimaryMove =>
        LET done == SelectSeq(calls', NotAccept)
        IN  /\ Ops(done) = <<"MouseMoveSystem", "_previousMousePosition", "redraw">>
            /\ done[1].arg = Distance(event'.position, previousMousePosition, viewport)
            /\ done[2].arg = event'.position
            /\ previousMousePosition' = event'.position
            /\ redrawFlag'
            /\ Len(SelectSeq(calls', IsSystemCall)) = 1]_vars

MoveSequenceWitness ==
    /\ event.kind = "move" /\ "Left" \in event.buttons
    /\ Len(calls) = 4
    /\ calls[1].op = "MouseMoveSystem" /\ calls[1].arg # <<0, 0>>
    /\ calls[2].op = "_previousMousePosition"
    /\ previousMousePosition = event.position
    /\ redrawFlag

\* C4: a press of the primary button records the event position and
\* nothing else: no system is invoked, the registry is unchanged and no
\* redraw is requested.
PressOnlyRecords ==
    [][PrimaryPress =>
        /\ previousMousePosition' = event'.position
        /\ registry' = registry
        /\ redrawFlag' = redrawFlag
        /\ projection' = projection
        /\ \A i \in DOMAIN calls' :
               ~IsSystemCall(calls'[i]) /\ calls'[i].op # "redraw"]_vars

PressOnlyRecordsWitness ==
    /\ event.kind = "press" /\ event.buttons = {"Left"}
    /\ previousMousePosition = event.position
    /\ Len(calls) > 0 /\ calls[1].op = "_previousMousePosition"
    /\ ~redrawFlag

\* C5: a release of the primary button invokes the Release-Color System
\* once, then requests a redraw, invokes no other system and leaves the
\* recorded pointer position as it was.
ReleaseSequence ==
    [][PrimaryRelease =>
        /\ Ops(SelectSeq(calls', NotAccept)) = <<"MouseReleaseSystem", "redraw">>
        /\ registry' = MouseReleaseSystem(registry)
        /\ redrawFlag'
        /\ previousMousePosition' = previousMousePosition]_vars

ReleaseSequenceWitness ==
    /\ event.kind = "release" /\ event.buttons = {"Left"} /\ event.afterPress
    /\ Len(calls) = 3 /\ calls[1].op = "MouseReleaseSystem" /\ calls[3].op = "redraw"
    /\ redrawFlag
    /\ registry.drawable[0].color # BoxDrawable.color
    /\ previousMousePosition # event.position

\* C6 as stated: a release of the primary button with no press on record
\* invokes no system, changes no component and requests no redraw.
UnmatchedReleaseIsNoOp ==
    [][(PrimaryRelease /\ ~pressRecorded) =>
        /\ registry' = registry
        /\ redrawFlag' = redrawFlag
        /\ \A i \in DOMAIN calls' :
               ~IsSystemCall(calls'[i]) /\ calls'[i].op # "redraw"]_vars

\* C6 as amended: a release of the primary button with no press on record
\* is handled like every primary release: the Release-Color System is
\* invoked once and a redraw is requested.
UnmatchedReleaseCycles ==
    [][(PrimaryRelease /\ ~pressRecorded) =>
        /\ Ops(SelectSeq(calls', IsSystemCall)) = <<"MouseReleaseSystem">>
        /\ registry' = MouseReleaseSystem(registry)
        /\ registry'.drawable # registry.drawable
        /\ redrawFlag']_vars

UnmatchedReleaseWitness ==
    /\ event.kind = "release" /\ event.buttons = {"Left"} /\ ~event.afterPress
    /\ Len(calls) = 3 /\ calls[1].op = "MouseReleaseSystem"
    /\ redrawFlag
    /\ registry.drawable[0].color # BoxDrawable.color

\* C7 as stated: a move reporting the primary button held with no press on
\* record does not invoke the Input-Rotation System and changes no
\* orientation.
UnmatchedMoveIgnored ==
    [][(PrimaryMove /\ ~pressRecorded) =>
        /\ registry'.orientation = registry.orientation
        /\ \A i \in DOMAIN calls' : calls'[i].op # "MouseMoveSystem"]_vars

\* C7 as amended: a move reporting the primary button held invokes the
\* Input-Rotation System also when no press is on record, with the distance
\* from the recorded position as it stands, which is (0,0) before any event.
UnmatchedMoveRotates ==
    [][(PrimaryMove /\ ~pressRecorded) =>
        /\ Ops(SelectSeq(calls', IsSystemCall)) = <<"MouseMoveSystem">>
        /\ calls'[1].arg = Distance(event'.position, previousMousePosition, viewport)
        /\ event.kind = "none" =>
               calls'[1].arg = Distance(event'.position, <<0, 0>>, viewport)
        /\ registry' = MouseMoveSystem(registry, calls'[1].arg)]_vars

UnmatchedMoveWitness ==
    /\ event.kind = "move" /\ "Left" \in event.buttons /\ ~event.afterPress
    /\ Len(calls) = 4 /\ calls[1].op = "MouseMoveSystem" /\ calls[1].arg # <<0, 0>>
    /\ registry.orientation[0] # InitialOrientation

\* C8: a redraw tick clears the color and depth targets, invokes the Render
\* System once with the current projection, then presents the frame; the
\* Render System is invoked nowhere else.
RedrawSequence ==
    /\ event.kind = "draw" =>
           /\ Ops(calls) = <<"defaultFramebuffer.clear(Color|Depth)", "RenderSystem",
                             "swapBuffers">>
           /\ calls[2].arg = projection
    /\ \A i \in DOMAIN calls :
           calls[i].op = "RenderSystem" => event.kind = "draw" /\ i = 2

RedrawSequenceWitness ==
    /\ event.kind = "draw"
    /\ Len(calls) = 3
    /\ calls[2].op = "RenderSystem"
    /\ Len(calls[2].draws) = 1
    /\ nMoves > 0

\* the quaternion of a rotation by angle about X times q
LeftX(angle, q) ==
    LET s == Sin(RDiv(angle, 2))
        c == Cos(RDiv(angle, 2))
    IN  << RDiv(c * q[1] + s * q[4], FScale), RDiv(c * q[2] - s * q[3], FScale),
           RDiv(c * q[3] + s * q[2], FScale), RDiv(c * q[4] - s * q[1], FScale) >>

\* q times the quaternion of a rotation by angle about Y
RightY(q, angle) ==
    LET s == Sin(RDiv(angle, 2))
        c == Cos(RDiv(angle, 2))
    IN  << RDiv(c * q[1] - s * q[3], FScale), RDiv(c * q[2] + s * q[4], FScale),
           RDiv(c * q[3] + s * q[1], FScale), RDiv(c * q[4] - s * q[2], FScale) >>

\* the quaternion of a rotation by angle about Y times q
LeftY(angle, q) ==
    LET s == Sin(RDiv(angle, 2))
        c == Cos(RDiv(angle, 2))
    IN  << RDiv(c * q[1] + s * q[3], FScale), RDiv(c * q[2] + s * q[4], FScale),
           RDiv(c * q[3] - s * q[1], FScale), RDiv(c * q[4] - s * q[2], FScale) >>

\* q times the quaternion of a rotation by angle about X
RightX(q, angle) ==
    LET s == Sin(RDiv(angle, 2))
        c == Cos(RDiv(angle, 2))
    IN  << RDiv(c * q[1] + s * q[4], FScale), RDiv(c * q[2] + s * q[3], FScale),
           RDiv(c * q[3] - s * q[2], FScale), RDiv(c * q[4] - s * q[1], FScale) >>

Unit(q) == LET n == Sqrt(Dot4(q, q)) IN [i \in 1..4 |-> RDiv(q[i] * FScale, n)]

\* the step is one pass of the Input-Rotation System
MovePass == Len(calls') > 0 /\ calls'[1].op = "MouseMoveSystem"

\* C9 as stated: a pass with distance (dx, dy) sets every orientation to
\* rotation(dx about Y) * old * rotation(dy about X), renormalized.
RotationOrderAsStated ==
    [][MovePass =>
        \A e \in DOMAIN registry.orientation :
            registry'.orientation[e] =
                Unit(RightX(LeftY(calls'[1].arg[1], registry.orientation[e]),
                            calls'[1].arg[2]))]_vars

\* C9 as amended: a pass with distance (dx, dy) sets every orientation to
\* rotation(dy about X) * old * rotation(dx about Y), renormalized: the
\* vertical rotation is the left factor, the horizontal one the right
\* factor; entities and all other components stay as they are.
RotationOrder ==
    [][MovePass =>
        /\ DOMAIN registry'.orientation = DOMAIN registry.orientation
        /\ \A e \in DOMAIN registry.orientation :
               registry'.orientation[e] =
                   Unit(RightY(LeftX(calls'[1].arg[2], registry.orientation[e]),
                               calls'[1].arg[1]))]_vars

RotationOrderWitness ==
    /\ Len(calls) > 0 /\ calls[1].op = "MouseMoveSystem"
    /\ calls[1].arg[1] # 0 /\ calls[1].arg[2] # 0
    /\ Cardinality(DOMAIN registry.orientation) >= 2
    /\ DOMAIN registry.orientation # registry.alive
    /\ \A e \in DOMAIN registry.orientation :
           registry.orientation[e] # InitialOrientation

NormTolerance == 3 * FScale

\* |q|^2 differs from 1 by no more than the tolerance
IsUnit(q) == Abs(Dot4(q, q) - FScale * FScale) <= NormTolerance

\* C10: every orientation has norm 1 within tolerance, after any number of
\* Input-Rotation System passes with any distances.
OrientationUnit ==
    \A e \in DOMAIN registry.orientation : IsUnit(registry.orientation[e])

OrientationUnitWitness ==
    /\ nMoves >= 2
    /\ registry.orientation[0] # InitialOrientation
    /\ IsUnit(registry.orientation[0])
    /\ Dot4(registry.orientation[0], registry.orientation[0]) # FScale * FScale

---------------------------------------------------------------------------
\* Release-Color System

\* a step that is one pass of the Release-Color System
ReleasePass == nReleases' = nReleases + 1

FullTurn == 360 * DegScale

\* every table but the Drawable one is left as it was
OthersKept ==
    /\ registry'.alive = registry.alive
    /\ registry'.identity = registry.identity
    /\ registry'.position = registry.position
    /\ registry'.orientation = registry.orientation
    /\ registry'.scale = registry.scale

\* C11: one pass of the Release-Color System gives every entity that has a
\* Drawable, whatever else it has, the colour of hue (old hue + 50 degrees)
\* mod 360 with saturation 1 and value 1, whatever the old saturation and
\* value were, and leaves every entity without a Drawable as it was.
ReleaseCycles ==
    [][ReleasePass =>
        /\ OthersKept
        /\ DOMAIN registry'.drawable = DOMAIN registry.drawable
        /\ \A e \in DOMAIN registry.drawable :
              /\ Hue(registry'.drawable[e].color)
                     = (Hue(registry.drawable[e].color) + 50 * DegScale) % FullTurn
              /\ Saturation(registry'.drawable[e].color) = FScale
              /\ Value(registry'.drawable[e].color) = FScale
              /\ registry'.drawable[e].mesh = registry.drawable[e].mesh
              /\ registry'.drawable[e].shader = registry.drawable[e].shader]_vars

\* after the first pass over a registry with a Drawable of saturation below
\* 1 on an entity without Identity, and an entity without a Drawable
ReleaseCyclesWitness ==
    /\ nReleases = 1
    /\ calls # <<>> /\ calls[1].op = "MouseReleaseSystem"
    /\ \E e \in DOMAIN registry.drawable \ DOMAIN registry.identity :
          /\ Saturation(initial.drawable[e].color) < FScale
          /\ Value(initial.drawable[e].color) < FScale
    /\ registry.alive \ DOMAIN registry.drawable # {}

\* the hue an entity's Drawable has now, and had at the start
HueNow(e) == Hue(registry.drawable[e].color)

HueAtStart(e) == Hue(initial.drawable[e].color)

\* C12: after n passes of the Release-Color System with n * 50 a multiple
\* of 360, in particular after exactly 36 passes, the hue of every Drawable
\* is the hue it started with.
HuePeriod ==
    \A e \in DOMAIN registry.drawable :
        (nReleases * 50) % 360 = 0 => HueNow(e) = HueAtStart(e)

\* after 36 passes: the hues are back, on colours that are not the initial ones
HuePeriodWitness ==
    /\ nReleases = 36
    /\ \A e \in DOMAIN registry.drawable : HueNow(e) = HueAtStart(e)
    /\ \E e \in DOMAIN registry.drawable :
          registry.drawable[e].color # initial.drawable[e].color

\* C13 as stated: the hue is back at its starting value after 360 / 50
\* passes, that is after the seventh or the eighth.
HueBackAfterQuotient ==
    \A e \in DOMAIN registry.drawable :
        nReleases \in {360 \div 50, 360 \div 50 + 1} => HueNow(e) = HueAtStart(e)

\* C13: after n passes the hue of every Drawable is its starting hue
\* advanced by n steps of 50 degrees, mod 360; it is the starting hue
\* exactly when n is a multiple of 36, so the first return is after 36
\* passes and not after 360 / 50.
HueAdvance ==
    \A e \in DOMAIN registry.drawable :
        /\ HueNow(e) = (HueAtStart(e) + nReleases * 50 * DegScale) % FullTurn
        /\ HueNow(e) = HueAtStart(e) <=> nReleases % 36 = 0

\* after seven passes the hue is 350 degrees on, ten short of the start
HueAdvanceWitness ==
    /\ nReleases = 360 \div 50
    /\ \E e \in DOMAIN registry.drawable :
          /\ HueNow(e) = (HueAtStart(e) + 350 * DegScale) % FullTurn
          /\ HueNow(e) # HueAtStart(e)

\* C14: in every state reached by passes of the Release-Color System the
\* colour of every Drawable has its hue in [0, 360) and its saturation and
\* value in [0, 1].
ColorInBounds ==
    \A e \in DOMAIN registry.drawable :
        /\ 0 <= HueNow(e) /\ HueNow(e) < FullTurn
        /\ 0 <= Saturation(registry.drawable[e].color)
        /\ Saturation(registry.drawable[e].color) <= FScale
        /\ 0 <= Value(registry.drawable[e].color)
        /\ Value(registry.drawable[e].color) <= FScale

\* a pass has just taken a hue past 360 degrees, and it wrapped
ColorInBoundsWitness ==
    /\ nReleases > 0
    /\ calls # <<>> /\ calls[1].op = "MouseReleaseSystem"
    /\ \E e \in DOMAIN registry.drawable :
          /\ HueNow(e) < 50 * DegScale
          /\ HueNow(e) = (HueAtStart(e) + nReleases * 50 * DegScale) - FullTurn

---------------------------------------------------------------------------
\* Render System

\* the last handler ran a render pass
Rendered == calls # <<>> /\ calls[Len(calls)].op = "RenderSystem"

\* the draw requests of that pass
Draws == calls[Len(calls)].draws

\* the entities a render pass iterates
Renderable == Range(View(registry, ComponentTypes))

PointTolerance == FScale \div 2000

Near(a, b) ==
    /\ ~a.nan /\ ~b.nan
    /\ \A i \in 1..3 : Abs(a.v[i] - b.v[i]) <= PointTolerance

LocalPoints == {<<0, 0, 0>>, <<FScale, 0, 0>>, <<0, FScale, FScale>>}

\* a local point scaled, then rotated, then translated
ScaledRotatedTranslated(e, p) ==
    TransformPoint(
        MatMul(MatMul(Translation(registry.position[e]),
                      RotationMatrix(Angle(registry.orientation[e]),
                                     NormalizedVector(Axis(registry.orientation[e])))),
               Scaling(registry.scale[e])), p)

\* C15 as stated: the transform of every draw request scales a local point
\* first, then rotates it, then translates it, so that the local origin
\* lands on the entity's Position whatever its Scale and Orientation.
ScaleFirst ==
    Rendered =>
        \A i \in DOMAIN Draws :
            ~Draws[i].transformation.nan =>
                /\ \A p \in LocalPoints :
                      Near(TransformPoint(Draws[i].transformation, p),
                           ScaledRotatedTranslated(Draws[i].entity, p))
                /\ Near(TransformPoint(Draws[i].transformation, <<0, 0, 0>>),
                        Vec(registry.position[Draws[i].entity]))

\* C16 as stated: for an entity at Position (0,0,0) with the identity
\* Orientation and Scale (2,2,2) the render pass composes a well-defined
\* transform, which takes the local point (1,0,0) to (2,0,0).
IdentityTransformDefined ==
    Rendered =>
        \A e \in Renderable :
            (/\ registry.position[e] = <<0, 0, 0>>
             /\ registry.orientation[e] = IdentityOrientation
             /\ registry.scale[e] = <<2 * FScale, 2 * FScale, 2 * FScale>>)
            => /\ ~aborted
               /\ \E i \in DOMAIN Draws :
                     /\ Draws[i].entity = e
                     /\ TransformPoint(Draws[i].transformation, <<FScale, 0, 0>>)
                            = Vec(<<2 * FScale, 0, 0>>)

\* a step that is one pass of the Render System
RenderStep == calls' # <<>> /\ calls'[Len(calls')].op = "RenderSystem"

\* C17: a pass of the Render System leaves the registry as it was: the
\* entities, the components each has and the value of every component.
RenderReadOnly == [][RenderStep => registry' = registry]_vars

\* a pass that drew several entities, after the colours had been cycled
RenderReadOnlyWitness ==
    /\ Rendered
    /\ Len(Draws) >= 2
    /\ nReleases > 0
    /\ registry # initial

\* C18 as stated: a pass of the Render System submits exactly one draw
\* request for each entity that has all five components and none for any
\* other entity; there are as many requests as there are such entities.
OneDrawEach ==
    Rendered =>
        /\ Len(Draws) = Cardinality(Renderable)
        /\ \A i \in DOMAIN Draws : Draws[i].entity \in Renderable
        /\ \A e \in Renderable :
              Cardinality({i \in DOMAIN Draws : Draws[i].entity = e}) = 1

\* C19: every draw request of a render pass carries the projection the
\* pass was given, the transform composed for its entity, as normal
\* transform the rotation-and-scale part of that transform, as diffuse
\* colour the entity's current colour and as ambient colour the same hue
\* at value 0.3; after k passes of the Release-Color System the diffuse hue
\* is the entity's starting hue plus 50k degrees, mod 360.
DrawCarries ==
    Rendered =>
        \A i \in DOMAIN Draws :
            /\ Draws[i].projection = projection
            /\ Draws[i].projection = calls[Len(calls)].arg
            /\ Draws[i].transformation = Transform(registry, Draws[i].entity)
            /\ Draws[i].normal = RotationScaling(Draws[i].transformation)
            /\ Draws[i].diffuse = registry.drawable[Draws[i].entity].color
            /\ Hue(Draws[i].ambient) = Hue(Draws[i].diffuse)
            /\ Saturation(Draws[i].ambient) = FScale
            /\ Value(Draws[i].ambient) = (3 * FScale) \div 10
            /\ Hue(Draws[i].diffuse)
                   = (HueAtStart(Draws[i].entity) + nReleases * 50 * DegScale) % FullTurn

\* a frame drawn after two colour cycles, with a transform that has a
\* translation part
DrawCarriesWitness ==
    /\ Rendered
    /\ nReleases = 2
    /\ \E i \in DOMAIN Draws :
          /\ ~Draws[i].transformation.nan
          /\ Draws[i].transformation.m[1][4] # 0
          /\ Hue(Draws[i].diffuse) # HueAtStart(Draws[i].entity)
          /\ Draws[i].ambient # Draws[i].diffuse

---------------------------------------------------------------------------
\* Animation System, Physics System

\* a step that is one pass of the Animation or of the Physics System
StubStep == calls' # <<>> /\ calls'[1].op \in {"AnimationSystem", "PhysicsSystem"}

\* C20: a pass of the Animation System or of the Physics System changes no
\* component of the registry and no state of the Frame Driver.
StubsIdle ==
    [][StubStep =>
        /\ registry' = registry
        /\ UNCHANGED <<previousMousePosition, projection, viewport, redrawFlag>>]_vars

\* the Animation System has just run over a registry that holds
\* orientations and cycled colours
StubsIdleWitness ==
    /\ calls # <<>> /\ calls[1].op = "AnimationSystem"
    /\ DOMAIN registry.orientation # {}
    /\ nReleases > 0

---------------------------------------------------------------------------
\* Entity Registry

\* a step that is one registry call of the given name
RegistryStep(op) == steps' = steps + 1 /\ calls'[1].op = op

\* the entity a registry call was about
Subject == calls'[1].arg[1]

\* C21: create() returns an identifier that no live entity has; the live
\* entities are the former ones and the new one, one more than before,
\* whatever creations and destructions came earlier.
FreshIdentifier ==
    [][RegistryStep("create") =>
        /\ Subject \notin registry.alive
        /\ registry'.alive = registry.alive \cup {Subject}
        /\ Cardinality(registry'.alive) = Cardinality(registry.alive) + 1]_vars

\* create() has just handed out again the identifier of an entity that was
\* live at the start and has been destroyed, while other entities are live
FreshIdentifierWitness ==
    /\ calls # <<>> /\ calls[1].op = "create"
    /\ calls[1].arg[1] \in initial.alive
    /\ calls[1].arg[1] \in registry.alive
    /\ Cardinality(registry.alive) >= 2

\* C22: after destroy(e) no view over any component list yields e and no
\* component type has a value for e; no table ever holds a component of an
\* entity that is not live, and an entity just created, with a reused
\* identifier or not, has no component.
NoStaleData ==
    [][/\ \A c \in ComponentTypes : Pool(registry', c) \subseteq registry'.alive
       /\ Range(viewed'.result) \subseteq registry'.alive
       /\ (RegistryStep("destroy") \/ RegistryStep("create")) =>
             /\ \A c \in ComponentTypes : Get(registry', c, Subject) = {}
             /\ RegistryStep("destroy") =>
                   \A types \in (SUBSET ComponentTypes) \ {{}} :
                       Subject \notin Range(View(registry', types))]_vars

\* a view queried after the destruction of an entity that held the listed
\* types yields the other holders only
NoStaleDataWitness ==
    /\ viewed.types # {}
    /\ viewed.result # <<>>
    /\ \E e \in initial.alive \ registry.alive :
          /\ \A c \in viewed.types : Has(initial, c, e)
          /\ e \notin Range(viewed.result)

\* C23: destroy(e) of an entity that is not live, destroyed before or never
\* created, stops the program and leaves the registry as it was.
DestroyUnknownFails ==
    [][(RegistryStep("destroy") /\ Subject \notin registry.alive) =>
        /\ aborted'
        /\ registry' = registry]_vars

\* the program was stopped by a destroy while entities were live
DestroyUnknownFailsWitness ==
    /\ aborted
    /\ calls # <<>> /\ calls[1].op = "destroy"
    /\ calls[1].arg[1] \notin registry.alive
    /\ registry.alive # {}

\* every component of every entity but type c of entity e is as it was
RestKept(c, e) ==
    /\ registry'.alive = registry.alive
    /\ \A d \in ComponentTypes : \A x \in EntityIds :
           (d # c \/ x # e) => Get(registry', d, x) = Get(registry, d, x)

\* C24: assign<C>(e, v) on a live entity succeeds whether or not e has a C
\* already; afterwards e has exactly one C, of value v, and nothing else
\* has changed.
AssignAttachesOrReplaces ==
    [][(RegistryStep("assign") /\ Subject \in registry.alive) =>
        /\ ~aborted'
        /\ Get(registry', calls'[1].arg[2], Subject) = {calls'[1].arg[3]}
        /\ RestKept(calls'[1].arg[2], Subject)]_vars

\* an assign has just replaced a Position by another value
AssignAttachesOrReplacesWitness ==
    /\ ~aborted
    /\ calls # <<>> /\ calls[1].op = "assign"
    /\ calls[1].arg[2] = "Position"
    /\ Has(initial, "Position", calls[1].arg[1])
    /\ registry.position[calls[1].arg[1]] # initial.position[calls[1].arg[1]]
    /\ registry.position[calls[1].arg[1]] = calls[1].arg[3]

\* C25: assign<C>(e, v) on an entity that is not live fails: the program
\* stops, no component is attached or changed and e does not become live.
AssignUnknownFails ==
    [][(RegistryStep("assign") /\ Subject \notin registry.alive) =>
        /\ aborted'
        /\ registry' = registry]_vars

\* the program was stopped by an assign to an entity that is not live
AssignUnknownFailsWitness ==
    /\ aborted
    /\ calls # <<>> /\ calls[1].op = "assign"
    /\ calls[1].arg[1] \notin registry.alive
    /\ \A c \in ComponentTypes : Get(registry, c, calls[1].arg[1]) = {}

---------------------------------------------------------------------------
\* One pass at a time

\* C26: at most one system pass is in progress at any time; a pass that
\* has started visits the entities of its view one after the other and
\* ends only when it has visited them all; until then no other system
\* starts and no handler is entered.
OnePassAtATime ==
    [][/\ Len(running') <= 1
       /\ (running = <<>> /\ running' # <<>>) =>
             running'[1].pending = View(registry, Listed(running'[1].system))
       /\ running # <<>> =>
             /\ event' = event
             /\ \/ /\ running[1].pending # <<>>
                   /\ running' = << [running[1] EXCEPT !.pending = Tail(@)] >>
                \/ /\ running[1].pending = <<>>
                   /\ running' = <<>>]_vars

\* the Input-Rotation pass of a drag is half way through the two
\* entities of its view
OnePassAtATimeWitness ==
    /\ Len(running) = 1
    /\ running[1].system = "MouseMoveSystem"
    /\ Len(running[1].pending) = 1
    /\ DOMAIN registry.orientation = {0, 1}
    /\ registry.orientation[1] # initial.orientation[1]
    /\ registry.orientation[0] = initial.orientation[0]

---------------------------------------------------------------------------
\* AbstractResourceLoader

\* the loader is followed up to this many requests, loaded resources and
\* resources not found
MaxLoads == 2

\* what the loader and Debug leave alone
applicationVars ==
    <<registry, previousMousePosition, projection, viewport, redrawFlag,
      nMoves, nReleases, viewed, steps, event, pressRecorded, initial, running>>

ResourceDataStates == {"Loading", "NotFound", "Mutable", "Final"}

ResourcePolicies == {"Resident", "ReferenceCounted"}

\* the data handed over: none, or a loaded resource
ResourceData == {"nullptr", "resource"}

\* ResourceManager::set(key, data, state, policy): the manager keeps the
\* data, the state and the policy under the key
ManagerSet(manager, key, data, state, policy) ==
    [manager EXCEPT ![key] = Resource(data, state, policy)]

\* the condition of the assertion in set()
SetAccepts(state) == state = "Mutable" \/ state = "Final"

\* AbstractResourceLoader::set(key, data, state, policy), up to the
\* assertion when it fails
LoaderSetCountsFirst(l, key, data, state, policy) ==
    IF SetAccepts(state)
    THEN [l EXCEPT !.loadedCount = @ + 1,
                   !.manager = ManagerSet(@, key, data, state, policy)]
    ELSE [l EXCEPT !.loadedCount = @ + 1]

LoaderSet(l, key, data, state, policy) ==
    IF SetAccepts(state)
    THEN [l EXCEPT !.loadedCount = @ + 1,
                   !.manager = ManagerSet(@, key, data, state, policy)]
    ELSE l

\* AbstractResourceLoader::setNotFound(key)
LoaderSetNotFoundSettles(l, key) ==
    [l EXCEPT !.notFoundCount = @ + 1,
              !.requestedCount = IF @ > 0 THEN @ - 1 ELSE @,
              !.manager = ManagerSet(@, key, "nullptr", "NotFound", "Resident")]

LoaderSetNotFound(l, key) ==
    [l EXCEPT !.notFoundCount = @ + 1,
              !.manager = ManagerSet(@, key, "nullptr", "NotFound", "Resident")]

\* doLoad(key) is left to the implementation, which loads synchronously
\* or asynchronously: it returns with the resource still to come
\* ("later"), or it has called set(key, data), which is
\* set(key, data, Final, Resident), or setNotFound(key) before it returns
DoLoadOutcomes == {"later", "Final", "NotFound"}

DoLoad(l, key, outcome) ==
    CASE outcome = "later" -> l
      [] outcome = "Final" -> LoaderSet(l, key, "resource", "Final", "Resident")
      [] outcome = "NotFound" -> LoaderSetNotFound(l, key)

\* variant: the state Loading is written after doLoad has returned
LoaderLoadWritesAfter(l, key, outcome) ==
    LET answered == DoLoad([l EXCEPT !.requestedCount = @ + 1], key, outcome)
    IN  [answered EXCEPT !.manager = ManagerSet(@, key, "nullptr", "Loading", "Resident")]

\* AbstractResourceLoader::load(key)
LoaderLoad(l, key, outcome) ==
    DoLoad([l EXCEPT !.requestedCount = @ + 1,
                     !.manager = ManagerSet(@, key, "nullptr", "Loading", "Resident")],
           key, outcome)

\* the calls doLoad makes before it returns
DoLoadCalls(key, outcome) ==
    CASE outcome = "later" -> <<>>
      [] outcome = "Final" -> << Call("set", <<key, "resource", "Final", "Resident">>) >>
      [] outcome = "NotFound" -> << Call("setNotFound", <<key>>) >>

\* the application as constructed, with a loader just constructed
LoaderInit == Init /\ loader.manager = [key \in ResourceKeys |-> NotLoaded]

load(key, outcome) ==
    /\ ~aborted
    /\ loader.requestedCount < MaxLoads
    /\ outcome = "Final" => loader.loadedCount < MaxLoads
    /\ outcome = "NotFound" => loader.notFoundCount < MaxLoads
    /\ loader' = LoaderLoad(loader, key, outcome)
    /\ calls' = << Call("load", <<key>>) >> \o DoLoadCalls(key, outcome)
    /\ UNCHANGED <<applicationVars, aborted, debug, image, registration>>

set(key, data, state, policy) ==
    /\ ~aborted
    /\ loader.loadedCount < MaxLoads
    /\ loader' = LoaderSet(loader, key, data, state, policy)
    /\ aborted' = ~SetAccepts(state)
    /\ calls' = << Call("set", <<key, data, state, policy>>) >>
    /\ UNCHANGED <<applicationVars, debug, image, registration>>

setNotFound(key) ==
    /\ ~aborted
    /\ loader.notFoundCount < MaxLoads
    /\ loader' = LoaderSetNotFound(loader, key)
    /\ calls' = << Call("setNotFound", <<key>>) >>
    /\ UNCHANGED <<applicationVars, aborted, debug, image, registration>>

LoaderNext ==
    \/ \E key \in ResourceKeys, outcome \in DoLoadOutcomes: load(key, outcome)
    \/ \E key \in ResourceKeys, data \in ResourceData,
          state \in ResourceDataStates, policy \in ResourcePolicies:
           set(key, data, state, policy)
    \/ \E key \in ResourceKeys: setNotFound(key)

SpecLoader == LoaderInit /\ [][LoaderNext]_vars

---------------------------------------------------------------------------
\* A loader whose doLoad answers every request once

\* the loader is followed up to this many requests to a doLoad that
\* answers each
MaxRequests == 3

\* the answers doLoad gives: set(key, data) or setNotFound(key)
Answers == DoLoadOutcomes \ {"later"}

\* the requests doLoad has accepted and not yet answered
RECURSIVE Owed(_, _)
Owed(pending, keys) ==
    IF keys = {}
    THEN 0
    ELSE LET key == CHOOSE k \in keys: TRUE
         IN  pending[key] + Owed(pending, keys \ {key})

Pending(l) == Owed(l.pending, ResourceKeys)

\* load(key) with a doLoad that answers before it returns, or keeps the
\* request to answer it later
loadAnswered(key, outcome) ==
    /\ ~aborted
    /\ loader.requestedCount < MaxRequests
    /\ loader' = [LoaderLoad(loader, key, outcome) EXCEPT
                      !.pending[key] = IF outcome = "later" THEN @ + 1 ELSE @]
    /\ calls' = << Call("load", <<key>>) >> \o DoLoadCalls(key, outcome)
    /\ UNCHANGED <<applicationVars, aborted, debug, image, registration>>

\* the implementation answers a request it kept: set(key, data) or
\* setNotFound(key), once
answerLater(key, outcome) ==
    /\ ~aborted
    /\ loader.pending[key] > 0
    /\ loader' = [DoLoad(loader, key, outcome) EXCEPT !.pending[key] = @ - 1]
    /\ calls' = DoLoadCalls(key, outcome)
    /\ UNCHANGED <<applicationVars, aborted, debug, image, registration>>

AnsweringNext ==
    \/ \E key \in ResourceKeys, outcome \in DoLoadOutcomes: loadAnswered(key, outcome)
    \/ \E key \in ResourceKeys, outcome \in Answers: answerLater(key, outcome)

SpecAnswering == LoaderInit /\ [][AnsweringNext]_vars

---------------------------------------------------------------------------
\* The loader's counters

LoaderStep(op) == calls'[1].op = op

\* C27: load(key) sets the state of key to Loading and increments
\* requestedCount only if the resource is not yet loaded and not already
\* loading; for a resource that is Mutable, Final or Loading it neither
\* resets the state nor increments requestedCount.
LoadOnlyWhenIdle ==
    [][LoaderStep("load") =>
          LET key == Subject
              before == loader.manager[key]
          IN  IF before.state \in {"Loading", "Mutable", "Final"}
              THEN /\ loader'.requestedCount = loader.requestedCount
                   /\ loader'.manager[key] = before
              ELSE /\ loader'.requestedCount = loader.requestedCount + 1
                   /\ Len(calls') = 1 => loader'.manager[key].state = "Loading"]_vars

\* C28: set(key, data, state, policy) with state Mutable or Final
\* increments loadedCount by exactly one and hands the resource to the
\* manager with that state; with any other state the assertion fails and
\* neither loadedCount nor the manager's state for key changes.
SetCountsAccepted ==
    [][/\ LoaderStep("set") =>
             LET key == Subject
                 data == calls'[1].arg[2]
                 state == calls'[1].arg[3]
                 policy == calls'[1].arg[4]
             IN  IF SetAccepts(state)
                 THEN /\ loader'.loadedCount = loader.loadedCount + 1
                      /\ loader'.manager[key] = Resource(data, state, policy)
                      /\ \A other \in ResourceKeys \ {key}:
                             loader'.manager[other] = loader.manager[other]
                      /\ loader'.requestedCount = loader.requestedCount
                      /\ loader'.notFoundCount = loader.notFoundCount
                      /\ aborted' = aborted
                 ELSE /\ aborted'
                      /\ loader' = loader
       /\ (Len(calls') = 2 /\ calls'[2].op = "set") =>
             /\ loader'.loadedCount = loader.loadedCount + 1
             /\ loader'.manager[calls'[2].arg[1]].state = calls'[2].arg[3]]_vars

\* after a resource was set, a set with the state Loading has stopped at
\* its assertion
SetCountsAcceptedWitness ==
    /\ Len(calls) = 1
    /\ calls[1].op = "set"
    /\ calls[1].arg[3] = "Loading"
    /\ aborted
    /\ loader.loadedCount = 1
    /\ \E key \in ResourceKeys: loader.manager[key].state = "Mutable"

\* C29: setNotFound(key) increments notFoundCount by exactly one, sets
\* the state of key to NotFound and leaves requestedCount and loadedCount
\* as they were; no counter ever decreases under load, set and setNotFound.
NotFoundCounted ==
    [][/\ LoaderStep("setNotFound") =>
             /\ loader'.notFoundCount = loader.notFoundCount + 1
             /\ loader'.manager[Subject].state = "NotFound"
             /\ loader'.requestedCount = loader.requestedCount
             /\ loader'.loadedCount = loader.loadedCount
       /\ loader'.requestedCount >= loader.requestedCount
       /\ loader'.loadedCount >= loader.loadedCount
       /\ loader'.notFoundCount >= loader.notFoundCount]_vars

\* one resource was requested and loaded, then the other was requested
\* and reported missing
NotFoundCountedWitness ==
    /\ Len(calls) = 1
    /\ calls[1].op = "setNotFound"
    /\ loader.manager[calls[1].arg[1]].state = "NotFound"
    /\ loader.requestedCount = 2
    /\ loader.loadedCount = 1
    /\ loader.notFoundCount = 1
    /\ \E key \in ResourceKeys: loader.manager[key].state = "Final"

\* the calls of the step that answer a request for key
AnswersFor(key) ==
    {i \in DOMAIN calls': calls'[i].op \in {"set", "setNotFound"} /\ calls'[i].arg[1] = key}

\* C38: with a doLoad that calls exactly one of set() and setNotFound()
\* for every invocation, before it returns or later, loadedCount +
\* notFoundCount never exceeds requestedCount and equals it exactly when
\* no load is pending; load() writes the state Loading before it calls
\* doLoad, and the key stays Loading until set() or setNotFound() runs
\* for it.
PendingAccounted ==
    /\ [](/\ loader.loadedCount + loader.notFoundCount <= loader.requestedCount
          /\ loader.loadedCount + loader.notFoundCount = loader.requestedCount
                <=> Pending(loader) = 0)
    /\ [][/\ LoaderStep("load") =>
                 /\ AnswersFor(Subject) = {} => loader'.manager[Subject].state = "Loading"
                 /\ AnswersFor(Subject) # {} =>
                        loader'.manager[Subject].state \in {"Final", "NotFound"}
          /\ \A key \in ResourceKeys:
                 (/\ loader.manager[key].state = "Loading"
                  /\ loader'.manager[key].state # "Loading") => AnswersFor(key) # {}]_vars

\* both resources were requested; one was answered by doLoad before it
\* returned, the other was kept and has now been reported missing
PendingAccountedWitness ==
    /\ Len(calls) = 1
    /\ calls[1].op = "setNotFound"
    /\ loader.requestedCount = 2
    /\ loader.loadedCount = 1
    /\ loader.notFoundCount = 1
    /\ Pending(loader) = 0
    /\ loader.manager[calls[1].arg[1]].state = "NotFound"

---------------------------------------------------------------------------
\* Corrade::Utility::Debug: scoped output redirection

\* at most this many Debug instances are alive at once
MaxInstances == 3

\* std::ostream*: std::cout, another stream, or no output at all
Outputs == {"cout", "stream", "nullptr"}

\* one Debug instance: its _output and _previousGlobalOutput, and (history)
\* the constructor that made it
Instance(output, previous, by) ==
    [output |-> output, previousGlobalOutput |-> previous, by |-> by]

Last(instances) == instances[Len(instances)]

Without(instances, i) ==
    [j \in 1..(Len(instances) - 1) |-> IF j < i THEN instances[j] ELSE instances[j + 1]]

\* the application as constructed, no Debug instance alive
DebugInit == Init /\ debug.instances = <<>>

\* Debug(std::ostream* output, Flags): the instance writes to output and
\* remembers the output in force; output is in force from now on
DebugOutput(output) ==
    /\ Len(debug.instances) < MaxInstances
    /\ debug' = [debug EXCEPT
                    !.instances = Append(@, Instance(output, debug.globalOutput, "output")),
                    !.globalOutput = output]
    /\ UNCHANGED <<applicationVars, calls, aborted, loader, image, registration>>

\* Debug(Flags): as Debug(output, flags) with the output in force
DebugDefault ==
    /\ Len(debug.instances) < MaxInstances
    /\ debug' = [debug EXCEPT
                    !.instances = Append(@, Instance(debug.globalOutput, debug.globalOutput, "default"))]
    /\ UNCHANGED <<applicationVars, calls, aborted, loader, image, registration>>

\* Debug(Debug&&) = default: the new instance takes a copy of each member
\* of the other, which stays alive until its own destructor runs
DebugMove(i) ==
    /\ Len(debug.instances) < MaxInstances
    /\ debug' = [debug EXCEPT
                    !.instances = Append(@, [debug.instances[i] EXCEPT !.by = "move"])]
    /\ UNCHANGED <<applicationVars, calls, aborted, loader, image, registration>>

\* ~Debug(): the output the instance remembered is in force again
DebugDestroy(i) ==
    /\ debug' = [debug EXCEPT
                    !.instances = Without(@, i),
                    !.globalOutput = debug.instances[i].previousGlobalOutput,
                    !.nested = @ /\ i = Len(debug.instances)]
    /\ UNCHANGED <<applicationVars, calls, aborted, loader, image, registration>>

DebugNext ==
    \/ \E output \in Outputs: DebugOutput(output)
    \/ DebugDefault
    \/ \E i \in 1..Len(debug.instances): DebugMove(i)
    \/ \E i \in 1..Len(debug.instances): DebugDestroy(i)

SpecDebug == DebugInit /\ [][DebugNext]_vars

\* the instances alive that were constructed with an explicit output
Redirecting(instances) == {i \in 1..Len(instances): instances[i].by = "output"}

Innermost(indices) == CHOOSE i \in indices: \A j \in indices: j <= i

\* C30: redirection is scoped with stack discipline. As long as instances
\* are destroyed in reverse order of construction: an instance made by the
\* default constructor while an instance constructed with an explicit
\* output is alive uses the output of the innermost such instance; and
\* after a redirecting instance is destroyed the output in force is the
\* one that was in force just before that instance was constructed.
ScopedRedirection ==
    [][debug'.nested =>
          /\ (/\ Len(debug'.instances) = Len(debug.instances) + 1
              /\ Last(debug'.instances).by = "default"
              /\ Redirecting(debug.instances) # {}) =>
                 Last(debug'.instances).output =
                     debug.instances[Innermost(Redirecting(debug.instances))].output
          /\ (/\ Len(debug'.instances) = Len(debug.instances) - 1
              /\ Last(debug.instances).by = "output") =>
                 debug'.globalOutput = Last(debug.instances).previousGlobalOutput]_vars

---------------------------------------------------------------------------
\* Warning and Error: Debug with an output of their own

\* the two classes derived from Debug
Derived == {"Warning", "Error"}

\* Warning::_globalWarningOutput, Error::_globalErrorOutput
GlobalOf(class) ==
    IF class = "Warning" THEN "globalWarningOutput" ELSE "globalErrorOutput"

\* Warning::_previousGlobalWarningOutput, Error::_previousGlobalErrorOutput
PreviousOf(class) ==
    IF class = "Warning" THEN "previousGlobalWarningOutput"
    ELSE "previousGlobalErrorOutput"

\* the class of an instance, read off the members it has
ClassOf(instance) ==
    IF "previousGlobalWarningOutput" \in DOMAIN instance THEN "Warning"
    ELSE IF "previousGlobalErrorOutput" \in DOMAIN instance THEN "Error"
    ELSE "Debug"

\* an instance of a derived class: its Debug part, which remembers the
\* Debug output in force, and the output of its own class it remembers
DerivedInstance(class, output, by) ==
    Instance(output, debug.globalOutput, by)
        @@ (PreviousOf(class) :> debug[GlobalOf(class)])

\* Warning(std::ostream* output, Flags), Error(std::ostream* output, Flags):
\* output is in force for the class from now on
DerivedOutput(class, output) ==
    /\ Len(debug.instances) < MaxInstances
    /\ debug' = [debug EXCEPT
                    !.instances = Append(@, DerivedInstance(class, output, "output")),
                    ![GlobalOf(class)] = output]
    /\ UNCHANGED <<applicationVars, calls, aborted, loader, image, registration>>

\* Warning(Flags), Error(Flags): the output in force for the class
DerivedDefault(class) ==
    /\ Len(debug.instances) < MaxInstances
    /\ debug' = [debug EXCEPT
                    !.instances = Append(@, DerivedInstance(class, debug[GlobalOf(class)], "default"))]
    /\ UNCHANGED <<applicationVars, calls, aborted, loader, image, registration>>

\* ~Warning(), ~Error(): the output of the class the instance remembered
\* is in force again; then ~Debug() runs for its Debug part
DerivedDestroy(i) ==
    LET instance == debug.instances[i]
        class == ClassOf(instance)
    IN  /\ class \in Derived
        /\ debug' = [debug EXCEPT
                        !.instances = Without(@, i),
                        ![GlobalOf(class)] = instance[PreviousOf(class)],
                        !.globalOutput = instance.previousGlobalOutput,
                        !.nested = @ /\ i = Len(debug.instances)]
        /\ UNCHANGED <<applicationVars, calls, aborted, loader, image, registration>>

\* Debug, Warning and Error instances side by side, all of them variables
\* of nested scopes: the instance constructed last is destroyed first.
\* The move constructor of each of the three classes is the defaulted
\* member-wise copy
OutputsNext ==
    \/ \E output \in Outputs: DebugOutput(output)
    \/ DebugDefault
    \/ \E class \in Derived, output \in Outputs: DerivedOutput(class, output)
    \/ \E class \in Derived: DerivedDefault(class)
    \/ \E i \in 1..Len(debug.instances): DebugMove(i)
    \/ \E i \in {Len(debug.instances)} \ {0}:
           ClassOf(debug.instances[i]) = "Debug" /\ DebugDestroy(i)
    \/ \E i \in {Len(debug.instances)} \ {0}: DerivedDestroy(i)

SpecOutputs == DebugInit /\ [][OutputsNext]_vars

\* the output in force for a class
Current(d, class) ==
    IF class = "Debug" THEN d.globalOutput ELSE d[GlobalOf(class)]

\* C31: the Debug, Warning and Error outputs are controlled separately.
\* As long as instances are destroyed in reverse order of construction,
\* constructing or destroying an instance that was constructed with an
\* explicit output changes the output in force of its own class only.
OutputsSeparate ==
    [][debug'.nested =>
          LET made == Len(debug'.instances) = Len(debug.instances) + 1
              gone == Len(debug'.instances) = Len(debug.instances) - 1
              subject == IF made THEN Last(debug'.instances) ELSE Last(debug.instances)
          IN  ((made \/ gone) /\ subject.by = "output") =>
                 \A class \in {"Debug", "Warning", "Error"} \ {ClassOf(subject)}:
                    Current(debug', class) = Current(debug, class)]_vars

---------------------------------------------------------------------------
\* Image and CompressedImage

\* images are up to this many pixels wide (and one pixel high)
MaxWidth == 2

\* at most this many images are alive at once
MaxImages == 2

\* what images, loaders and managers leave alone
othersVars == <<applicationVars, calls, aborted, loader, debug>>

\* Math::Vector<dimensions, Int>{}: the zero size (two dimensions)
ZeroSize == <<0, 0>>

\* Containers::Array<char>{}: an array that owns nothing
EmptyArray == <<>>

\* Containers::Array<char>: the bytes of width pixels, numbered
PixelData(width, pixelSize) == [i \in 1..(width * pixelSize) |-> i]

\* Containers::Array<char>{std::move(other)}: the new array owns what the
\* other owned, and the other owns nothing
ArrayMove(other) == [array |-> other, other |-> EmptyArray]

\* PixelStorage / CompressedPixelStorage, told apart by their alignment
Storages == {1, 4}

\* pixel formats with their pixel size in bytes (R8Unorm, RGBA8Unorm)
Formats == { [format |-> "R8Unorm", pixelSize |-> 1],
             [format |-> "RGBA8Unorm", pixelSize |-> 4] }

\* Image(storage, format, formatExtra, pixelSize, size, data)
Image(storage, format, formatExtra, pixelSize, size, data) ==
    [storage |-> storage, format |-> format, formatExtra |-> formatExtra,
     pixelSize |-> pixelSize, size |-> size, data |-> data]

\* CompressedImage(storage, format, size, data)
CompressedImage(storage, format, size, data) ==
    [storage |-> storage, format |-> format, size |-> size, data |-> data]

\* the images the constructors are called for
Images ==
    { Image(storage, f.format, 0, f.pixelSize, <<width, 1>>, PixelData(width, f.pixelSize)):
        storage \in Storages, f \in Formats, width \in 1..MaxWidth }
    \cup { Image(storage, f.format, 0, f.pixelSize, ZeroSize, EmptyArray):
        storage \in Storages, f \in Formats }
    \cup { CompressedImage(storage, "Bc1RGBUnorm", <<width, 1>>, PixelData(width, 1)):
        storage \in Storages, width \in 1..MaxWidth }
    \cup { CompressedImage(storage, "Bc1RGBUnorm", ZeroSize, EmptyArray):
        storage \in Storages }

\* Image::release(), CompressedImage::release(): the array returned and the
\* image afterwards
ImageReleaseKeepsSize(img) ==
    LET moved == ArrayMove(img.data)
    IN  [returned |-> moved.array, image |-> [img EXCEPT !.data = moved.other]]

ImageRelease(img) ==
    LET moved == ArrayMove(img.data)
    IN  [returned |-> moved.array,
         image |-> [img EXCEPT !.data = moved.other, !.size = ZeroSize]]

\* Image(Image&& other), CompressedImage(CompressedImage&& other): storage,
\* format, formatExtra, pixelSize and size are copied, the data moved, and
\* other._size is reset
ImageMove(other) ==
    LET moved == ArrayMove(other.data)
    IN  [constructed |-> [other EXCEPT !.data = moved.array],
         other |-> [other EXCEPT !.data = moved.other, !.size = ZeroSize]]

Operation(name, at) == [name |-> name, at |-> at]

ImagesInit == Init /\ image.images = <<>>

\* Image / CompressedImage constructed from storage, format, size and data
constructImage(img) ==
    /\ Len(image.images) < MaxImages
    /\ image' = [image EXCEPT !.images = Append(@, img),
                              !.op = Operation("Image", Len(image.images) + 1)]
    /\ UNCHANGED <<othersVars, registration>>

\* Image{std::move(images[i])}
moveImage(i) ==
    /\ Len(image.images) < MaxImages
    /\ image' = [image EXCEPT
                    !.images = Append([@ EXCEPT ![i] = ImageMove(image.images[i]).other],
                                      ImageMove(image.images[i]).constructed),
                    !.op = Operation("Image&&", i)]
    /\ UNCHANGED <<othersVars, registration>>

\* images[i] = std::move(images[j]): every member is swapped
assignImage(i, j) ==
    /\ i # j
    /\ (DOMAIN image.images[i]) = (DOMAIN image.images[j])
    /\ image' = [image EXCEPT
                    !.images = [@ EXCEPT ![i] = image.images[j], ![j] = image.images[i]],
                    !.op = Operation("operator=", i)]
    /\ UNCHANGED <<othersVars, registration>>

\* images[i].release()
release(i) ==
    /\ image' = [image EXCEPT
                    !.images = [@ EXCEPT ![i] = ImageRelease(image.images[i]).image],
                    !.returned = ImageRelease(image.images[i]).returned,
                    !.op = Operation("release", i)]
    /\ UNCHANGED <<othersVars, registration>>

\* the last image goes out of scope
destroyImage ==
    /\ image.images # <<>>
    /\ image' = [image EXCEPT
                    !.images = SubSeq(@, 1, Len(@) - 1),
                    !.op = Operation("~Image", Len(image.images))]
    /\ UNCHANGED <<othersVars, registration>>

ImagesNext ==
    \/ \E img \in Images: constructImage(img)
    \/ \E i \in 1..Len(image.images): moveImage(i)
    \/ \E i, j \in 1..Len(image.images): assignImage(i, j)
    \/ \E i \in 1..Len(image.images): release(i)
    \/ destroyImage

SpecImages == ImagesInit /\ [][ImagesNext]_vars

\* C32: release() returns the data array the image owned; afterwards the
\* image has size zero and owns no data, which is the state the image
\* would be in as the source of a move construction; a second release()
\* returns an empty array.
ReleaseLeavesMovedFrom ==
    [][image'.op.name = "release" =>
          LET before == image.images[image'.op.at]
              after == image'.images[image'.op.at]
          IN  /\ image'.returned = before.data
              /\ after.size = ZeroSize
              /\ after.data = EmptyArray
              /\ after = ImageMove(before).other
              /\ ImageRelease(after).returned = EmptyArray
              /\ ImageRelease(after).image = after]_vars

\* an image of two pixels has been released: its four bytes were returned
\* and it is empty, while the other image, of Image or CompressedImage
\* alike, is as it was
ReleaseLeavesMovedFromWitness ==
    /\ image.op.name = "release"
    /\ Len(image.images) = 2
    /\ Len(image.returned) > 1
    /\ image.images[image.op.at].size = ZeroSize
    /\ \E j \in 1..2: image.images[j].size # ZeroSize

---------------------------------------------------------------------------
\* Structure and contents

\* the entities alive and, for each component type, the entities it is
\* attached to
Structure(reg) ==
    [alive |-> reg.alive, identity |-> DOMAIN reg.identity,
     position |-> DOMAIN reg.position, orientation |-> DOMAIN reg.orientation,
     scale |-> DOMAIN reg.scale, drawable |-> DOMAIN reg.drawable]

\* C33: after construction no handler and no system creates or destroys
\* an entity or attaches or detaches a component: the entities alive and
\* the component types on each of them are those of the start, between
\* handlers and at every point of a pass over a view.
StructureFixed == Structure(registry) = Structure(initial)

\* half way through a pass over two entities, after a drag and a release
\* have changed orientations and colors
StructureFixedWitness ==
    /\ Len(running) = 1
    /\ Len(running[1].pending) = 1
    /\ Cardinality(registry.alive) = 2
    /\ registry.orientation # initial.orientation
    /\ registry.drawable # initial.drawable

\* C34: each mutating system writes only the component it views: a pass of
\* the Input-Rotation System changes Orientation values and nothing else;
\* a pass of the Release-Color System changes the color of Drawable and
\* nothing else, mesh and shader included.
WritesOwnComponent ==
    [][/\ MovePass =>
             registry' = [registry EXCEPT !.orientation = registry'.orientation]
       /\ ReleasePass =>
             /\ registry' = [registry EXCEPT !.drawable = registry'.drawable]
             /\ \A e \in DOMAIN registry.drawable:
                    registry'.drawable[e] =
                        [registry.drawable[e] EXCEPT !.color = registry'.drawable[e].color]]_vars

\* a drag has just turned the box, after a release recolored it
WritesOwnComponentWitness ==
    /\ calls # <<>>
    /\ calls[1].op = "MouseMoveSystem"
    /\ nReleases = 1
    /\ \E e \in registry.alive:
          /\ registry.orientation[e] # initial.orientation[e]
          /\ registry.drawable[e].color # initial.drawable[e].color
          /\ registry.drawable[e].shader = initial.drawable[e].shader
          /\ registry.position[e] = initial.position[e]

---------------------------------------------------------------------------
\* Drags step by step

\* three roundings of half a unit each, times the sensitivity
SumTolerance == 2 * sensitivity

\* C35: drag deltas are incremental. The recorded position is the
\* position of the last primary press or primary move, so each move's
\* delta is taken from the position of the one before it; adding it to the
\* delta from any starting point to the previous position gives the delta
\* from that starting point to the new position; a move to the position
\* already recorded has delta (0,0).
IncrementalDelta ==
    [][/\ PrimaryMove =>
             LET d == calls'[1].arg
                 last == previousMousePosition
                 now == event'.position
             IN  /\ d = Distance(now, last, viewport)
                 /\ previousMousePosition' = now
                 /\ now = last => d = <<0, 0>>
                 /\ \A p0 \in PointerPositions: \A i \in 1..2:
                        Abs(Distance(last, p0, viewport)[i] + d[i]
                            - Distance(now, p0, viewport)[i]) <= SumTolerance
       /\ PrimaryPress => previousMousePosition' = event'.position
       /\ ~(PrimaryMove \/ PrimaryPress) =>
             previousMousePosition' = previousMousePosition]_vars

\* after a press and a drag that turned the box, a second move to the
\* same position has passed the distance (0,0)
IncrementalDeltaWitness ==
    /\ nMoves = 2
    /\ event.kind = "move"
    /\ calls # <<>>
    /\ calls[1].op = "MouseMoveSystem"
    /\ calls[1].arg = <<0, 0>>
    /\ previousMousePosition = event.position
    /\ pressRecorded
    /\ registry.orientation # initial.orientation

---------------------------------------------------------------------------
\* Events without the primary button

\* the step is a handler called with a press or a release of another
\* button, or with a move while the primary button is not held
WithoutPrimary == "Left" \notin event'.buttons /\ event'.kind \in {"press", "release", "move"}

\* C36: a pointer event that does not involve the primary button is a
\* complete no-op: the recorded position and every component are as
\* before, no system is invoked and no redraw is requested; the handler
\* executes no statement after its test.
OtherButtonsIgnored ==
    [][WithoutPrimary =>
          /\ previousMousePosition' = previousMousePosition
          /\ registry' = registry
          /\ redrawFlag' = redrawFlag
          /\ projection' = projection
          /\ calls' = <<>>]_vars

\* with no redraw pending and the box turned by an earlier drag, the
\* other button is let go somewhere else than the recorded position
OtherButtonsIgnoredWitness ==
    /\ event.kind = "release"
    /\ event.buttons = {"Right"}
    /\ calls = <<>>
    /\ ~redrawFlag
    /\ previousMousePosition # event.position
    /\ registry.orientation # initial.orientation
    /\ nReleases = 0

---------------------------------------------------------------------------
\* Redraw after mutation

\* where the pointer is pressed and where it is dragged to
PressPositions == {<<100, 100>>}

DragPositions == {<<110, 100>>, <<100, 130>>}

\* the handlers of the example, for a pointer pressed at one place and
\* dragged to two others
RedrawNext ==
    \/ drawEvent
    \/ \E button \in Buttons, position \in PressPositions :
           mousePressEvent(button, position)
    \/ \E button \in Buttons, position \in ReleasePositions :
           mouseReleaseEvent(button, position)
    \/ \E buttons \in MoveButtons, position \in DragPositions :
           mouseMoveEvent(buttons, position)

\* a step of drawEvent, the one handler that clears the pending-redraw flag
DrawTick == ~aborted /\ redrawFlag /\ redrawFlag' = FALSE

\* the example with every requested redraw tick eventually delivered
SpecRedraw == Init /\ [][RedrawNext]_vars /\ WF_redrawFlag(DrawTick)


\* the position of a statement in the last handler, 0 if it has none
Position(cs, op) ==
    IF \E i \in DOMAIN cs: cs[i].op = op
    THEN CHOOSE i \in DOMAIN cs: cs[i].op = op
    ELSE 0

\* the last handler was a redraw tick whose render pass read the registry
\* as it is now
RenderedCurrent ==
    /\ ~redrawFlag
    /\ event.kind = "draw"
    /\ Position(calls, "RenderSystem") > 0
    /\ calls[Position(calls, "RenderSystem")].draws = RenderSystem(registry, projection)

\* C37: every handler that changes a component requests a redraw after
\* the change, in the same handler; a redraw tick requests no further
\* redraw; so, with requested ticks eventually delivered, every change is
\* eventually followed by a render pass that reads the changed state, and
\* once that tick is served no tick is due until the next input.
RedrawFollows ==
    /\ [][/\ registry' # registry =>
                /\ redrawFlag'
                /\ \E system \in {"MouseMoveSystem", "MouseReleaseSystem"}:
                      0 < Position(calls', system)
                      /\ Position(calls', system) < Position(calls', "redraw")
          /\ event'.kind = "draw" =>
                /\ ~redrawFlag'
                /\ Position(calls', "redraw") = 0]_vars
    /\ [](~redrawFlag => ~ENABLED drawEvent)
    /\ (redrawFlag ~> RenderedCurrent)

\* a drag and a release changed the box, and the tick they requested has
\* rendered it as it is now
RedrawFollowsWitness ==
    /\ RenderedCurrent
    /\ event.kind = "draw"
    /\ registry.orientation # initial.orientation
    /\ registry.drawable # initial.drawable

---------------------------------------------------------------------------
\* Loaders and their managers

\* this many loaders and this many managers are constructed
MaxLoaders == 2
MaxManagers == 2

\* a loader knows its manager (0: nullptr), a manager its loader
NewLoader == [alive |-> TRUE, manager |-> 0]
NewManager == [alive |-> TRUE, loader |-> 0]

\* variant: the destructor leaves the manager as it is
LoaderDestroyLeavesManager(r, l) ==
    [r EXCEPT !.loaders[l].alive = FALSE]

\* ~AbstractResourceLoader(): if(manager) manager->_loader = nullptr
LoaderDestroy(r, l) ==
    LET manager == r.loaders[l].manager
    IN  [r EXCEPT !.loaders[l].alive = FALSE,
                  !.managers = IF manager # 0
                               THEN [@ EXCEPT ![manager].loader = 0]
                               ELSE @]

\* ResourceManager::setLoader(&loader): the loader is added to the
\* manager, each referring to the other
ManagerSetLoader(r, m, l) ==
    [r EXCEPT !.managers[m].loader = l, !.loaders[l].manager = m]

\* ~ResourceManager(): the manager deletes its loader, then goes
ManagerDestroy(r, m) ==
    LET l == r.managers[m].loader
        deleted == IF l # 0 THEN LoaderDestroy(r, l) ELSE r
    IN  [deleted EXCEPT !.managers[m].alive = FALSE]

RegistrationInit == Init /\ registration = NothingRegistered

constructLoader ==
    /\ Len(registration.loaders) < MaxLoaders
    /\ registration' = [registration EXCEPT !.loaders = Append(@, NewLoader)]
    /\ calls' = << Call("AbstractResourceLoader", <<Len(registration.loaders) + 1>>) >>
    /\ UNCHANGED <<applicationVars, aborted, loader, debug, image>>

constructManager ==
    /\ Len(registration.managers) < MaxManagers
    /\ registration' = [registration EXCEPT !.managers = Append(@, NewManager)]
    /\ calls' = << Call("ResourceManager", <<Len(registration.managers) + 1>>) >>
    /\ UNCHANGED <<applicationVars, aborted, loader, debug, image>>

\* manager.setLoader(&loader) for a manager without a loader and a loader
\* not yet added to a manager
setLoader(m, l) ==
    /\ m \in DOMAIN registration.managers
    /\ l \in DOMAIN registration.loaders
    /\ registration.managers[m].alive
    /\ registration.loaders[l].alive
    /\ registration.managers[m].loader = 0
    /\ registration.loaders[l].manager = 0
    /\ registration' = ManagerSetLoader(registration, m, l)
    /\ calls' = << Call("setLoader", <<m, l>>) >>
    /\ UNCHANGED <<applicationVars, aborted, loader, debug, image>>

destroyLoader(l) ==
    /\ l \in DOMAIN registration.loaders
    /\ registration.loaders[l].alive
    /\ registration' = LoaderDestroy(registration, l)
    /\ calls' = << Call("~AbstractResourceLoader", <<l>>) >>
    /\ UNCHANGED <<applicationVars, aborted, loader, debug, image>>

destroyManager(m) ==
    /\ m \in DOMAIN registration.managers
    /\ registration.managers[m].alive
    /\ registration' = ManagerDestroy(registration, m)
    /\ calls' = << Call("~ResourceManager", <<m>>) >>
    /\ UNCHANGED <<applicationVars, aborted, loader, debug, image>>

RegistrationNext ==
    \/ constructLoader
    \/ constructManager
    \/ \E m \in 1..MaxManagers, l \in 1..MaxLoaders: setLoader(m, l)
    \/ \E l \in 1..MaxLoaders: destroyLoader(l)
    \/ \E m \in 1..MaxManagers: destroyManager(m)

SpecRegistration == RegistrationInit /\ [][RegistrationNext]_vars

\* C39: destroying a loader that is registered with a manager empties
\* that manager's loader reference and changes no other manager, so no
\* live manager ever refers to a destroyed loader; destroying a loader
\* that was never registered leaves every manager as it was.
LoaderUnregisters ==
    /\ [](\A m \in DOMAIN registration.managers:
             LET manager == registration.managers[m]
             IN  (manager.alive /\ manager.loader # 0) =>
                     registration.loaders[manager.loader].alive)
    /\ [][calls'[1].op = "~AbstractResourceLoader" =>
             LET l == calls'[1].arg[1]
                 manager == registration.loaders[l].manager
             IN  /\ ~registration'.loaders[l].alive
                 /\ \A m \in DOMAIN registration.managers:
                        registration'.managers[m] =
                            IF m = manager
                            THEN [registration.managers[m] EXCEPT !.loader = 0]
                            ELSE registration.managers[m]]_vars

\* a registered loader has just been destroyed: its manager lives on
\* without a loader, while the other manager still has its own
LoaderUnregistersWitness ==
    /\ calls # <<>>
    /\ calls[1].op = "~AbstractResourceLoader"
    /\ LET l == calls[1].arg[1]
           manager == registration.loaders[l].manager
       IN  /\ manager # 0
           /\ registration.managers[manager].alive
           /\ registration.managers[manager].loader = 0
           /\ \E m \in DOMAIN registration.managers:
                  /\ registration.managers[m].alive
                  /\ registration.managers[m].loader \notin {0, l}

====
